---- MODULE Spec2Model ----
(***************************************************************************)
(* A state-machine model of the sitecloner acquisition pipeline:           *)
(*   - SiteCloner.clone_site and the closure loop      (src/sitecloner.py) *)
(*   - DownloadManager.download_urls, its tasks and                        *)
(*     retry_failed_downloads                    (src/download_manager.py) *)
(*   - DownloadManager._download_single_url      (src/download_manager.py) *)
(*   - URLResolver.url_to_local_path                 (src/url_resolver.py) *)
(* Specification Spec is one run of clone_site over a small site,          *)
(* SpecPath is url_to_local_path applied to adversarial URLs, and          *)
(* SpecFetch is one fetch (_download_single_url) against a server that     *)
(* may answer badly.  The further specifications (recovery, resolution,    *)
(* rewriting, rate limiting, the import chain, checkpoints, load_state and *)
(* the circuit breaker) are introduced where their variables are declared. *)
(* Each specification keeps the variables of the others at rest.           *)
(***************************************************************************)
EXTENDS Integers, Sequences, FiniteSets, TLC

(***************************************************************************)
(* The URL universe of a run: the root page and four assets.               *)
(***************************************************************************)
Root == "https://ex.test/"
CssA == "https://ex.test/a.css"
CssB == "https://ex.test/b.css"
Img == "https://ex.test/bg.png"
Tracker == "https://www.google-analytics.com/ga.js"

AssetUrls == {CssA, CssB, Img, Tracker}
AllUrls == AssetUrls \cup {Root}

\* The largest max_concurrent_downloads a run is configured with.
MaxConcurrent == 2

\* sitecloner.py:132  batch_size = min(max_concurrent_downloads * 2, 50)
BatchCap == 50
\* sitecloner.py:368-370
max_iterations == 10
max_total_css_files == 500
max_css_depth == 8
\* download_manager.py:451  retry_failed_downloads(..., max_attempts = 5)
max_attempts == 5
\* config.py:56  save_metadata: bool = True
save_metadata == TRUE

Min(a, b) == IF a < b THEN a ELSE b

(***************************************************************************)
(* DownloadResult (download_manager.py:20-31): success, error, and whether *)
(* a local path is set.  present = FALSE stands for "no entry in the dict".*)
(***************************************************************************)
NoResult == [present |-> FALSE, success |-> FALSE, error |-> ""]
SuccessResult == [present |-> TRUE, success |-> TRUE, error |-> ""]
FailedResult(err) == [present |-> TRUE, success |-> FALSE, error |-> err]
EmptyResults == [u \in AssetUrls |-> NoResult]

\* What one fetch task can end with: a success, a failed DownloadResult with
\* its error text, or an exception raised out of the task.
HttpErrors == {"HTTP 500: Internal Server Error", "HTTP 403: Forbidden"}
TaskException == "exception"
Outcomes == {"ok", TaskException} \cup HttpErrors

\* url_resolver.py:201-276 gives every URL one relative path under the
\* output directory; the root page is index.html.
LocalPathOf(u) ==
    CASE u = Root -> "index.html"
      [] u = CssA -> "ex.test/a.css"
      [] u = CssB -> "ex.test/b.css"
      [] u = Img -> "ex.test/bg.png"
      [] OTHER -> "www.google-analytics.com/ga.js"

\* sitecloner.py:385-387: should_process_for_assets(url) and '.css' in url
IsCssUrl(u) == u \in {CssA, CssB}

(***************************************************************************)
(* The site: what the root page references and what each stylesheet        *)
(* references (its @import targets and its url(...) values).               *)
(***************************************************************************)
PageChoices == {{}, {CssA}, {CssA, Tracker}, {CssA, CssB, Img}}
CssAChoices == {{}, {CssB}, {CssB, Img}}
CssBChoices == {{}, {CssA}, {CssA, Img}}
Sites == [page : PageChoices, a : CssAChoices, b : CssBChoices]

VARIABLES
    site,               \* the content served (fixed during a run)
    max_concurrent_downloads,   \* config.max_concurrent_downloads
    pc,                 \* control position of clone_site
    phases,             \* the phases begun so far, in order
    result,             \* clone_site's return value ("none" while running)
    discovered_urls,    \* SiteCloner.discovered_urls
    download_results,   \* SiteCloner.download_results
    url_mapping,        \* URLRewriter.url_mapping ("" = no entry)
    downloaded_urls,    \* DownloadManager.downloaded_urls
    failed_urls,        \* DownloadManager.failed_urls
    asset_todo,         \* the part of asset_urls not yet batched
    task,               \* state of each fetch task of the current call
    du_arg,             \* argument of the current/last download_urls call
    du_pre,             \* downloaded_urls \cup failed_urls when it was called
    du_new,             \* new_urls of the call
    du_fetched,         \* URLs whose fetch the call has started
    du_ret,             \* where the caller continues
    du_result,          \* the map the call returned
    du_status,          \* "idle", "active" or "returned"
    fetch_count,        \* fetches started for each URL by this clone_site
    iteration,          \* closure loop: iteration
    processed_css_files,\* closure loop: processed_css_files
    css_todo,           \* closure loop: css_files_to_process not yet mined
    new_assets,         \* closure loop: new_assets of the iteration
    mined_count,        \* number of times the closure loop mined a stylesheet
    css_import_graph,   \* closure loop: css_import_graph
    css_depth_tracker,  \* closure loop: css_depth_tracker
    closure_exit,       \* why the closure loop ended
    retry_attempt,      \* retry_failed_downloads: attempt
    retry_results,      \* retry_failed_downloads: retry_results
    config,             \* config.max_retries, connection_timeout, retry_delay
    original_config,    \* retry_failed_downloads: original_retries, ...
    config_at_call,     \* config when retry_failed_downloads was called
    mapping_at_rewrite, \* url_mapping as it was when rewriting started
    state_saved,        \* whether save_state has written a checkpoint
    state_file,         \* the checkpoint file sitecloner_state.json
    shutdown_requested, \* SiteCloner.shutdown_requested
    inputs,             \* what the servers and the disk answer in this scenario
    recovery_pc,        \* control position of the caller of clone_site
    recovery_attempt,   \* clone_site_with_recovery: recovery_attempt
    recovery_result,    \* what the caller of clone_site returned
    restarts,           \* number of processes started after the first one
    executions,         \* clone_site calls of this clone_site_with_recovery
    successes,          \* how many of them returned True
    \* ---- url_to_local_path ----
    path_url,           \* the URL given: netloc, path and whether it has a query
    output_dir,         \* the output directory, as an absolute path
    symlinks,           \* the paths of the file system that are symbolic links
    path_pc,            \* "ready" or "returned"
    local_path,         \* the path url_to_local_path returned
    \* ---- _download_single_url ----
    fetch_url,          \* the URL being fetched (its shape)
    allowed,            \* config.should_download_file(url, file_size)
    overwrite_existing, \* config.overwrite_existing
    max_retries,        \* config.max_retries
    fetch_pc,           \* control position of the fetch
    attempt,            \* the loop variable of the fetch
    file_on_disk,       \* size of the file at local_path (Absent = none)
    file_size,          \* the length the server declared (NoLength = none)
    downloaded_size,    \* bytes written by the current attempt
    fetch_result,       \* "none", "success" or "failed"
    fetch_error,        \* error of a failed result
    retry_delay,        \* config.retry_delay
    called_url,         \* the URL the fetch was called with
    file_at_call,       \* the file at its local path when it was called
    requests,           \* the session.get calls made, by URL
    response,           \* the response of the current attempt
    delays,             \* what the current call has slept between attempts
    \* ---- RateLimiter ----
    max_rps,            \* RateLimiter.max_rps
    burst_size,         \* RateLimiter.burst_size
    clock,              \* time.time(), in ticks
    request_times,      \* RateLimiter.request_times
    burst_count,        \* RateLimiter.burst_count
    last_burst_reset,   \* RateLimiter.last_burst_reset
    wake_at,            \* per task: when its asyncio.sleep ends, or Absent
    admitted,           \* per tick: the calls that returned at that time
    \* ---- the closure loop by numbers of stylesheets ----
    unprocessed_css,    \* downloaded stylesheets not in processed_css_files
    processed_css,      \* len(processed_css_files)
    selected_css,       \* len(css_files_to_process)
    mined_css,          \* stylesheets mined in this run
    css_iteration,      \* iteration
    limit_pc,           \* "head", "mine", "download" or "done"
    \* ---- a run on the small site ----
    ref_forms,          \* how each reference of the site is written
    example_pc,         \* the phase of the run
    found_urls,         \* SiteCloner.discovered_urls
    mapping_keys,       \* the keys of URLRewriter.url_mapping
    img_src,            \* the src of the img in the saved root page
    \* ---- the closure loop on a chain of imports ----
    chain_length,       \* the number of import edges of the chain
    chain_pc,           \* "head", "mine", "download" or "done"
    chain_iteration,    \* iteration
    chain_results,      \* download_results of the stylesheets, by position
    chain_processed,    \* processed_css_files
    chain_todo,         \* css_files_to_process
    chain_new_assets,   \* new_assets
    chain_import_graph, \* css_import_graph
    chain_depth_tracker,\* css_depth_tracker (Absent = no entry)
    chain_handed,       \* the stylesheets the loop gave to download_urls
    \* ---- Phase 2 by numbers of assets ----
    assets_total,       \* len(asset_urls)
    workers,            \* config.max_concurrent_downloads
    batch_start,        \* the loop variable i
    completed,          \* downloads completed in this run
    completed_at_save,  \* completed when save_state last wrote the file
    checkpoints,        \* how often save_state has written the file
    batches_pc,         \* "loop", "done" or "returned"
    \* ---- load_state ----
    load_pc,            \* "ready" or "returned"
    load_returned,      \* what load_state returned
    fields_at_call,     \* the fields load_state found
    \* ---- CircuitBreaker ----
    failure_threshold,  \* CircuitBreaker.failure_threshold
    recovery_timeout,   \* CircuitBreaker.recovery_timeout, in ticks
    success_threshold,  \* CircuitBreaker.success_threshold
    breaker_state,      \* CircuitBreaker.state
    failure_count,      \* CircuitBreaker.failure_count
    success_count,      \* CircuitBreaker.success_count
    last_failure_time,  \* CircuitBreaker.last_failure_time (Absent = None)
    breaker_now,        \* datetime.now(), in ticks
    call_pc,            \* per caller: where its call() stands
    \* ---- resolve_url ----
    ref_url,            \* the reference given
    current_page_url,   \* the page it was found on (NoPage = None)
    resolve_pc,         \* "ready", "returned" or "again"
    resolved_url,       \* what resolve_url returned
    resolved_again,     \* what resolve_url returned for that result
    \* ---- rewrite_css_file, rewrite_html_file ----
    file_kind,          \* "css" or "html"
    url_form,           \* how the url(...) of the file is written
    src_attr,           \* the src attribute of the markup file's element
    mapped_urls,        \* the keys of URLRewriter.url_mapping
    page_levels,        \* len(current_page_dir.parts)
    file_content,       \* the text of the file
    rewrite_pc,         \* "ready" or "returned"
    changes_made        \* what the rewrite returned

pipelineVars == <<site, max_concurrent_downloads, pc, phases, result, discovered_urls,
          download_results, url_mapping, downloaded_urls, failed_urls,
          asset_todo, task, du_arg, du_pre, du_new, du_fetched, du_ret,
          du_result, du_status, fetch_count, iteration, processed_css_files,
          css_todo, new_assets, mined_count, css_import_graph,
          css_depth_tracker, closure_exit, retry_attempt, retry_results,
          config, original_config, config_at_call,
          mapping_at_rewrite, state_saved, state_file, shutdown_requested,
          inputs, recovery_pc, recovery_attempt, recovery_result, restarts,
          executions, successes>>
pathVars == <<path_url, output_dir, symlinks, path_pc, local_path>>
fetchVars == <<fetch_url, allowed, overwrite_existing, max_retries, fetch_pc,
               attempt, file_on_disk, file_size, downloaded_size,
               fetch_result, fetch_error, retry_delay, called_url,
               file_at_call, requests, response, delays>>
resolveVars == <<ref_url, current_page_url, resolve_pc, resolved_url,
                 resolved_again>>
rewriteVars == <<file_kind, url_form, src_attr, mapped_urls, page_levels,
                 file_content, rewrite_pc, changes_made>>
rateVars == <<max_rps, burst_size, clock, request_times, burst_count,
              last_burst_reset, wake_at, admitted>>
limitVars == <<unprocessed_css, processed_css, selected_css, mined_css,
               css_iteration, limit_pc>>
exampleVars == <<ref_forms, example_pc, found_urls, mapping_keys, img_src>>
chainVars == <<chain_length, chain_pc, chain_iteration, chain_results,
               chain_processed, chain_todo, chain_new_assets,
               chain_import_graph, chain_depth_tracker, chain_handed>>
batchesVars == <<assets_total, workers, batch_start, completed,
                 completed_at_save, checkpoints, batches_pc>>
loadVars == <<load_pc, load_returned, fields_at_call>>
breakerVars == <<failure_threshold, recovery_timeout, success_threshold,
                 breaker_state, failure_count, success_count,
                 last_failure_time, breaker_now, call_pc>>
\* The closure loop on a chain of imports, Phase 2 by numbers, load_state
\* and the circuit breaker.
lateVars == <<chainVars, batchesVars, loadVars, breakerVars>>
vars == <<pipelineVars, pathVars, fetchVars, resolveVars, rewriteVars,
          rateVars, limitVars, exampleVars, lateVars>>
\* What the actions of each function leave alone.
otherThanPath ==
    <<lateVars, exampleVars, limitVars, pipelineVars, fetchVars, resolveVars, rewriteVars, rateVars>>
otherThanFetch ==
    <<lateVars, exampleVars, limitVars, pipelineVars, pathVars, resolveVars, rewriteVars, rateVars>>
otherThanResolve ==
    <<lateVars, exampleVars, limitVars, pipelineVars, pathVars, fetchVars, rewriteVars, rateVars>>
otherThanRewrite ==
    <<lateVars, exampleVars, limitVars, pipelineVars, pathVars, fetchVars, resolveVars, rateVars>>
otherThanRate ==
    <<lateVars, exampleVars, limitVars, pipelineVars, pathVars, fetchVars, resolveVars, rewriteVars>>
otherThanLimit ==
    <<lateVars, exampleVars, pipelineVars, pathVars, fetchVars, resolveVars, rewriteVars,
      rateVars>>
otherThanExample ==
    <<lateVars, limitVars, pipelineVars, pathVars, fetchVars, resolveVars, rewriteVars,
      rateVars>>
\* The variables of the functions that are checked on their own.
otherThanChain ==
    <<exampleVars, limitVars, pipelineVars, pathVars, fetchVars, resolveVars,
      rewriteVars, rateVars, batchesVars, loadVars, breakerVars>>
otherThanBatches ==
    <<exampleVars, limitVars, pipelineVars, pathVars, fetchVars, resolveVars,
      rewriteVars, rateVars, chainVars, loadVars, breakerVars>>
otherThanCloner ==
    <<exampleVars, limitVars, pathVars, fetchVars, resolveVars, rewriteVars,
      rateVars, chainVars, batchesVars, breakerVars>>
otherThanBreaker ==
    <<exampleVars, limitVars, pipelineVars, pathVars, fetchVars, resolveVars,
      rewriteVars, rateVars, chainVars, batchesVars, loadVars>>
funcVars ==
    <<pathVars, fetchVars, resolveVars, rewriteVars, rateVars, limitVars,
      exampleVars, lateVars>>
\* What a run of clone_site as modelled by Spec leaves alone.
recoveryVars == <<recovery_pc, recovery_attempt, recovery_result, restarts,
                  executions, successes>>
restVars == <<funcVars, shutdown_requested, inputs, recoveryVars>>
unitVars == <<restVars, state_file>>

configVars == <<config, original_config, config_at_call>>
siteVars == <<site, max_concurrent_downloads, configVars>>
clonerVars == <<discovered_urls, download_results, url_mapping>>
managerVars == <<downloaded_urls, failed_urls>>
callVars == <<task, du_arg, du_pre, du_new, du_fetched, du_ret, du_result,
              du_status>>
closureVars == <<iteration, processed_css_files, css_todo, new_assets,
                 mined_count, css_import_graph, css_depth_tracker,
                 closure_exit>>
retryVars == <<retry_attempt, retry_results>>

NoMapping == [u \in AllUrls |-> ""]

\* The checkpoint file (sitecloner.py:49); save_state writes the root URL,
\* discovered_urls, download_results and the URL mapping to it
\* (sitecloner.py:213-226).
NoStateFile ==
    [exists |-> FALSE, target_url |-> "", discovered_urls |-> {},
     download_results |-> EmptyResults, url_mapping |-> NoMapping]

\* What the root server, the asset servers and the disk-space probe answer.
\* "any" leaves an answer open: it is chosen anew at every request.
FreeInputs ==
    [root |-> "any", disk |-> "any", outcome |-> [u \in AssetUrls |-> "any"]]

\* SiteCloner.__init__ and DownloadManager.__init__: nothing discovered,
\* nothing downloaded.
\* config.py:40-43: connection_timeout, max_retries and retry_delay, the
\* delay counted in half seconds.
DefaultConfig ==
    [max_retries |-> 5, connection_timeout |-> 30, retry_delay |-> 2]

\* The fields load_state writes, as the constructors leave them.
FieldsEmpty ==
    /\ discovered_urls = {}
    /\ download_results = EmptyResults
    /\ url_mapping = NoMapping
    /\ downloaded_urls = {}
    /\ failed_urls = {}

\* Everything else of a constructed cloner.
LocalsAtRest ==
    /\ phases = <<>>
    /\ result = "none"
    /\ asset_todo = {}
    /\ task = [u \in AssetUrls |-> "none"]
    /\ du_arg = {}
    /\ du_pre = {}
    /\ du_new = {}
    /\ du_fetched = {}
    /\ du_ret = "none"
    /\ du_result = EmptyResults
    /\ du_status = "idle"
    /\ fetch_count = [u \in AssetUrls |-> 0]
    /\ iteration = 0
    /\ processed_css_files = {}
    /\ css_todo = {}
    /\ new_assets = {}
    /\ mined_count = [u \in AssetUrls |-> 0]
    /\ css_import_graph = [u \in AssetUrls |-> {}]
    /\ css_depth_tracker = [u \in AssetUrls |-> 0]
    /\ closure_exit = "none"
    /\ retry_attempt = 0
    /\ retry_results = EmptyResults
    /\ config = DefaultConfig
    /\ original_config = DefaultConfig
    /\ config_at_call = DefaultConfig
    /\ mapping_at_rewrite = NoMapping
    /\ state_saved = FALSE
    /\ shutdown_requested = FALSE

ClonerConstructed == FieldsEmpty /\ LocalsAtRest

\* The cloner is constructed and clone_site is called.
ClonerStart ==
    /\ pc = "fetch_root"
    /\ ClonerConstructed

\* clone_site is called once, directly, in an empty output directory.
DirectCall ==
    /\ state_file = NoStateFile
    /\ recovery_pc = "direct"
    /\ recovery_attempt = 0
    /\ recovery_result = "none"
    /\ restarts = 0
    /\ executions = 0
    /\ successes = 0

ClonerInit ==
    /\ site \in Sites
    /\ max_concurrent_downloads \in 1..MaxConcurrent
    /\ inputs = FreeInputs
    /\ ClonerStart
    /\ DirectCall

\* The pipeline at rest: a cloner that is constructed and never run.
ClonerIdle ==
    /\ site = [page |-> {}, a |-> {}, b |-> {}]
    /\ max_concurrent_downloads = 1
    /\ inputs = FreeInputs
    /\ ClonerStart
    /\ DirectCall

(***************************************************************************)
(* DownloadManager.download_urls (download_manager.py:93-186) and its      *)
(* tasks (_download_with_semaphore, download_manager.py:188-193).          *)
(***************************************************************************)
\* What _download_single_url may end with for URL u in this scenario.
OutcomesOf(u) ==
    IF inputs.outcome[u] = "any" THEN Outcomes ELSE {inputs.outcome[u]}
\* What check_disk_space may answer (download_manager.py:548-554).
DiskSpaceAnswers ==
    IF inputs.disk = "any" THEN BOOLEAN ELSE {inputs.disk = "ok"}
\* Whether the fetch of the root page may succeed (sitecloner.py:88-92).
RootAnswers ==
    IF inputs.root = "any" THEN BOOLEAN ELSE {inputs.root = "ok"}

\* download_manager.py:101  new_urls = urls - downloaded_urls - failed_urls
NewUrls(urls) == (urls \ downloaded_urls) \ failed_urls

Running == {u \in AssetUrls : task[u] = "running"}
InFlight == {u \in AssetUrls : task[u] \in {"created", "running"}}

\* A semaphore that never blocks.
SemaphoreIgnored == TRUE

\* download_manager.py:151,192  asyncio.Semaphore(max_concurrent_downloads):
\* a task enters _download_single_url only while a permit is free.
SemaphoreFree == Cardinality(Running) < max_concurrent_downloads

\* A wait that resumes at the first task to finish.
GatherFirstCompleted == \E u \in du_new : task[u] \in Outcomes

\* download_manager.py:162  results = await asyncio.gather(*tasks, ...):
\* the call resumes once every task of the call has finished.
GatherReady == \A u \in du_new : task[u] \in Outcomes

\* download_manager.py:166-184: the result recorded for one finished task.
ResultOfTask(st) ==
    IF st = "ok" THEN SuccessResult
    ELSE IF st = TaskException THEN FailedResult("boom")
    ELSE FailedResult(st)

\* The call of download_urls(urls, output_dir) made at a caller's await:
\* lines 98-113 run at once; with work to do and disk space for it the tasks
\* are created (lines 150-159) and the caller waits at gather.
CallDownload(urls, ret) ==
    /\ du_arg' = urls
    /\ du_pre' = downloaded_urls \cup failed_urls
    /\ du_fetched' = {}
    /\ du_ret' = ret
    /\ IF NewUrls(urls) = {}
       THEN \* lines 103-104: nothing new, return {}
            /\ du_new' = {}
            /\ du_result' = EmptyResults
            /\ du_status' = "returned"
            /\ pc' = ret
            /\ UNCHANGED task
       ELSE \/ \* lines 110-113: check_disk_space fails, return {}
               /\ FALSE \in DiskSpaceAnswers
               /\ du_new' = NewUrls(urls)
               /\ du_result' = EmptyResults
               /\ du_status' = "returned"
               /\ pc' = ret
               /\ UNCHANGED task
            \/ \* lines 150-159: one task per new URL
               /\ TRUE \in DiskSpaceAnswers
               /\ du_new' = NewUrls(urls)
               /\ du_result' = EmptyResults
               /\ du_status' = "active"
               /\ pc' = "downloading"
               /\ task' = [u \in AssetUrls |->
                             IF u \in NewUrls(urls) THEN "created" ELSE "none"]

\* A task acquires the semaphore and enters _download_single_url.
TaskStart(u) ==
    /\ task[u] = "created"
    /\ SemaphoreFree
    /\ task' = [task EXCEPT ![u] = "running"]
    /\ du_fetched' = du_fetched \cup {u}
    /\ fetch_count' = [fetch_count EXCEPT ![u] = @ + 1]
    /\ UNCHANGED <<unitVars, siteVars,
                   pc, phases, result, clonerVars, managerVars,
                   asset_todo, du_arg, du_pre, du_new, du_ret, du_result,
                   du_status, closureVars, retryVars, mapping_at_rewrite,
                   state_saved>>

\* _download_single_url returns a DownloadResult or raises; the semaphore is
\* released on the way out.
TaskFinish(u) ==
    /\ task[u] = "running"
    /\ \E o \in OutcomesOf(u) : task' = [task EXCEPT ![u] = o]
    /\ UNCHANGED <<unitVars, siteVars,
                   pc, phases, result, clonerVars, managerVars,
                   asset_todo, du_arg, du_pre, du_new, du_fetched, du_ret,
                   du_result, du_status, fetch_count, closureVars, retryVars,
                   mapping_at_rewrite, state_saved>>

\* download_manager.py:162-186: gather resumes, every result is recorded in
\* downloaded_urls or failed_urls, and the map is returned to the caller.
DownloadReturn ==
    /\ pc = "downloading"
    /\ GatherReady
    /\ du_result' = [u \in AssetUrls |->
                       IF u \in du_new THEN ResultOfTask(task[u]) ELSE NoResult]
    /\ downloaded_urls' = downloaded_urls \cup {u \in du_new : task[u] = "ok"}
    /\ failed_urls' = failed_urls \cup {u \in du_new : task[u] # "ok"}
    /\ du_status' = "returned"
    /\ pc' = du_ret
    /\ UNCHANGED <<unitVars, siteVars,
                   phases, result, clonerVars, asset_todo, task,
                   du_arg, du_pre, du_new, du_fetched, du_ret, fetch_count,
                   closureVars, retryVars, mapping_at_rewrite, state_saved>>

(***************************************************************************)
(* SiteCloner.clone_site (sitecloner.py:74-194).                           *)
(***************************************************************************)
\* A mapping rebuilt from the results of the latest call alone.
MappingOfCallOnly(m, res) ==
    [u \in AllUrls |->
        IF u \in AssetUrls /\ res[u].present /\ res[u].success
        THEN LocalPathOf(u)
        ELSE IF u = Root THEN m[u] ELSE ""]

\* A mapping that takes in every result, failed ones too.
MappingWithEvery(m, res) ==
    [u \in AllUrls |->
        IF u \in AssetUrls /\ res[u].present THEN LocalPathOf(u) ELSE m[u]]

\* sitecloner.py:140-143 (and 153-156, 483-486): successful results enter the
\* URL mapping, every result enters download_results.
MappingWith(m, res) ==
    [u \in AllUrls |->
        IF u \in AssetUrls /\ res[u].present /\ res[u].success
        THEN LocalPathOf(u) ELSE m[u]]
ResultsWith(dr, res) ==
    [u \in AssetUrls |-> IF res[u].present THEN res[u] ELSE dr[u]]

Keys(dr) == {u \in AssetUrls : dr[u].present}

\* What discover_assets_in_css returns for a stylesheet: all URLs it
\* references (asset_discoverer.py:339-361).
CssRefs(u) == IF u = CssA THEN site.a ELSE IF u = CssB THEN site.b ELSE {}
\* The keys of the dict discover_assets_in_css returns
\* (asset_discoverer.py:343-348).
CssAssetKeys == {"stylesheets", "fonts", "images", "other"}
\* The @import targets among them are filed under 'stylesheets'.
CssImports(u) == {v \in CssRefs(u) : IsCssUrl(v)}

\* A run that goes on to discovery after the root page failed.
RootFailureIgnored == "discover"

\* sitecloner.py:92-94: `if not main_result.success: return False`
AfterRootFailure == "returned"

\* Phase 1, sitecloner.py:86-102: the root page is fetched by
\* download_and_parse_html; a failure returns False at once.
FetchRoot ==
    /\ pc = "fetch_root"
    /\ phases' = Append(phases, "fetch-root")
    /\ \/ /\ TRUE \in RootAnswers
          /\ url_mapping' = [url_mapping EXCEPT ![Root] = LocalPathOf(Root)]
          /\ pc' = "discover"
          /\ UNCHANGED result
       \/ /\ FALSE \in RootAnswers
          /\ pc' = AfterRootFailure
          /\ result' = "false"
          /\ UNCHANGED url_mapping
    /\ UNCHANGED <<unitVars, siteVars,
                   discovered_urls, download_results, managerVars,
                   asset_todo, callVars, fetch_count, closureVars, retryVars,
                   mapping_at_rewrite, state_saved>>

\* sitecloner.py:104-116: the assets of the root page become discovered_urls.
Discover ==
    /\ pc = "discover"
    /\ phases' = Append(phases, "discover-initial")
    /\ discovered_urls' = discovered_urls \cup site.page
    /\ pc' = IF discovered_urls' # {} THEN "batch_begin" ELSE "closure_begin"
    /\ UNCHANGED <<unitVars, siteVars, result, download_results, url_mapping,
                   managerVars, asset_todo, callVars, fetch_count, closureVars,
                   retryVars, mapping_at_rewrite, state_saved>>

\* sitecloner.py:119-133: Phase 2 starts; asset_urls = list(discovered_urls).
BatchBegin ==
    /\ pc = "batch_begin"
    /\ phases' = Append(phases, "batch-download-assets")
    /\ asset_todo' = discovered_urls
    /\ pc' = "batch_next"
    /\ UNCHANGED <<unitVars, siteVars,
                   result, clonerVars, managerVars, callVars,
                   fetch_count, closureVars, retryVars, mapping_at_rewrite,
                   state_saved>>

BatchSize == Min(max_concurrent_downloads * 2, BatchCap)

\* sitecloner.py:135-137: the next slice of asset_urls goes to download_urls.
BatchNext ==
    /\ pc = "batch_next"
    /\ asset_todo # {}
    /\ \E batch \in SUBSET asset_todo :
          /\ Cardinality(batch) = Min(BatchSize, Cardinality(asset_todo))
          /\ asset_todo' = asset_todo \ batch
          /\ CallDownload(batch, "batch_record")
    /\ UNCHANGED <<unitVars, siteVars, phases, result, clonerVars, managerVars,
                   fetch_count, closureVars, retryVars, mapping_at_rewrite,
                   state_saved>>

\* sitecloner.py:158-162: the slices are exhausted, Phase 3 follows.
BatchEnd ==
    /\ pc = "batch_next"
    /\ asset_todo = {}
    /\ pc' = "closure_begin"
    /\ UNCHANGED <<unitVars, siteVars, phases, result, clonerVars, managerVars,
                   asset_todo, callVars, fetch_count, closureVars, retryVars,
                   mapping_at_rewrite, state_saved>>

\* _process_css_files (sitecloner.py:331-364): the assets of the stylesheets
\* of batch_results that are not yet discovered and have no result.
CssAssetsOfBatch(res, dr) ==
    LET css_files == {u \in AssetUrls :
                         res[u].present /\ res[u].success /\ IsCssUrl(u)}
        found == UNION {CssRefs(u) : u \in css_files}
    IN  (found \ discovered_urls) \ Keys(dr)

\* sitecloner.py:139-152: the batch's results are recorded, its stylesheets
\* are mined, and whatever is discovered but has no result is downloaded.
BatchRecord ==
    /\ pc = "batch_record"
    /\ url_mapping' = MappingWith(url_mapping, du_result)
    /\ download_results' = ResultsWith(download_results, du_result)
    /\ discovered_urls' =
          discovered_urls \cup CssAssetsOfBatch(du_result, download_results')
    /\ IF discovered_urls' \ Keys(download_results') # {}
       THEN CallDownload(discovered_urls' \ Keys(download_results'),
                         "batch_new_record")
       ELSE /\ pc' = "batch_next"
            /\ du_status' = "idle"
            /\ UNCHANGED <<task, du_arg, du_pre, du_new, du_fetched, du_ret,
                           du_result>>
    /\ UNCHANGED <<unitVars, siteVars, phases, result, managerVars, asset_todo,
                   fetch_count, closureVars, retryVars, mapping_at_rewrite,
                   state_saved>>

\* sitecloner.py:153-156
BatchNewRecord ==
    /\ pc = "batch_new_record"
    /\ url_mapping' = MappingWith(url_mapping, du_result)
    /\ download_results' = ResultsWith(download_results, du_result)
    /\ pc' = "batch_next"
    /\ du_status' = "idle"
    /\ UNCHANGED <<unitVars, siteVars,
                   phases, result, discovered_urls, managerVars,
                   asset_todo, task, du_arg, du_pre, du_new, du_fetched,
                   du_ret, du_result, fetch_count, closureVars, retryVars,
                   mapping_at_rewrite, state_saved>>


(***************************************************************************)
(* SiteCloner._process_css_files_recursively (sitecloner.py:366-491).      *)
(***************************************************************************)
\* The URLs reachable from the URLs of set s by one or more import edges.
RECURSIVE ReachFrom(_, _, _)
ReachFrom(s, graph, n) ==
    IF n = 0 THEN {}
    ELSE LET next == UNION {graph[u] : u \in s}
         IN  next \cup ReachFrom(next, graph, n - 1)

\* _has_css_import_cycle (sitecloner.py:493-515): a depth-first search from
\* start_url that reports a URL met again on the current path, i.e. a cycle
\* reachable from start_url.
HasCssImportCycle(start_url, graph) ==
    \E v \in ({start_url} \cup ReachFrom({start_url}, graph, Cardinality(AssetUrls))) :
        v \in ReachFrom({v}, graph, Cardinality(AssetUrls))

\* A closure loop that forgets which stylesheets it has processed.
MarkProcessedForgotten(processed, css_url) == processed

\* sitecloner.py:406  processed_css_files.add(css_url)
MarkProcessed(processed, css_url) == processed \cup {css_url}

\* sitecloner.py:384-395: the downloaded stylesheets not yet processed; the
\* scan stops adopting files once max_total_css_files have been processed.
CssFilesToProcess ==
    IF Cardinality(processed_css_files) >= max_total_css_files THEN {}
    ELSE {u \in AssetUrls :
             /\ download_results[u].present
             /\ download_results[u].success
             /\ IsCssUrl(u)
             /\ u \notin processed_css_files}

\* sitecloner.py:434-440: the depth of every imported stylesheet is its
\* importer's depth plus one, unless that exceeds max_css_depth.
DepthsAfter(depths, css_url, imported) ==
    [u \in AssetUrls |->
        IF u \in imported /\ depths[css_url] + 1 <= max_css_depth
        THEN depths[css_url] + 1 ELSE depths[u]]

\* sitecloner.py:452-461: what of new_assets is handed to download_urls.
TrulyNewAssets ==
    LET already_discovered ==
            {u \in new_assets :
                download_results[u].present /\ download_results[u].success}
        depth_limited ==
            {u \in new_assets \ already_discovered :
                IsCssUrl(u) /\ css_depth_tracker[u] > max_css_depth}
    IN  (new_assets \ already_discovered) \ depth_limited

\* sitecloner.py:162, 371-376: Phase 3 starts.
ClosureBegin ==
    /\ pc = "closure_begin"
    /\ phases' = Append(phases, "closure-iterate")
    /\ iteration' = 0
    /\ processed_css_files' = {}
    /\ css_import_graph' = [u \in AssetUrls |-> {}]
    /\ css_depth_tracker' = [u \in AssetUrls |-> 0]
    /\ pc' = "closure_head"
    /\ UNCHANGED <<unitVars, siteVars,
                   result, clonerVars, managerVars, asset_todo,
                   callVars, fetch_count, css_todo, new_assets, mined_count,
                   closure_exit, retryVars, mapping_at_rewrite, state_saved>>

\* sitecloner.py:378-402: the loop head; an iteration selects its work.
ClosureHead ==
    /\ pc = "closure_head"
    /\ IF iteration < max_iterations
       THEN /\ iteration' = iteration + 1
            /\ IF CssFilesToProcess = {}
               THEN /\ pc' = "retry_begin"
                    /\ closure_exit' =
                          IF Cardinality(processed_css_files) >= max_total_css_files
                          THEN "css_limit" ELSE "no_new_css"
                    /\ UNCHANGED <<css_todo, new_assets>>
               ELSE /\ pc' = "closure_mine"
                    /\ css_todo' = CssFilesToProcess
                    /\ new_assets' = {}
                    /\ UNCHANGED closure_exit
       ELSE /\ pc' = "retry_begin"
            /\ closure_exit' = "max_iterations"
            /\ UNCHANGED <<iteration, css_todo, new_assets>>
    /\ UNCHANGED <<unitVars, siteVars, phases, result, clonerVars, managerVars,
                   asset_todo, callVars, fetch_count, processed_css_files,
                   mined_count, css_import_graph, css_depth_tracker, retryVars,
                   mapping_at_rewrite, state_saved>>

\* sitecloner.py:403-449: one stylesheet of the iteration is mined.  The
\* cycle and depth bookkeeping runs only when the discovered assets have a
\* 'css' key (line 424).
ClosureMine(css_url) ==
    /\ pc = "closure_mine"
    /\ css_url \in css_todo
    /\ css_todo' = css_todo \ {css_url}
    /\ processed_css_files' = MarkProcessed(processed_css_files, css_url)
    /\ mined_count' = [mined_count EXCEPT ![css_url] = @ + 1]
    /\ IF "css" \in CssAssetKeys
       THEN /\ css_import_graph' =
                  [css_import_graph EXCEPT ![css_url] = CssImports(css_url)]
            /\ IF HasCssImportCycle(css_url, css_import_graph')
               THEN UNCHANGED <<css_depth_tracker, new_assets>>
               ELSE /\ css_depth_tracker' =
                          DepthsAfter(css_depth_tracker, css_url,
                                      CssImports(css_url))
                    /\ new_assets' = new_assets \cup CssRefs(css_url)
       ELSE /\ new_assets' = new_assets \cup CssRefs(css_url)
            /\ UNCHANGED <<css_import_graph, css_depth_tracker>>
    /\ UNCHANGED <<unitVars, siteVars,
                   pc, phases, result, clonerVars, managerVars,
                   asset_todo, callVars, fetch_count, iteration, closure_exit,
                   retryVars, mapping_at_rewrite, state_saved>>

\* sitecloner.py:451-480: the iteration's new assets are filtered and handed
\* to download_urls; with none left the loop ends.
ClosureFilter ==
    /\ pc = "closure_mine"
    /\ css_todo = {}
    /\ IF TrulyNewAssets = {}
       THEN /\ pc' = "retry_begin"
            /\ closure_exit' = "no_new_assets"
            /\ UNCHANGED <<discovered_urls, callVars>>
       ELSE /\ discovered_urls' = discovered_urls \cup TrulyNewAssets
            /\ CallDownload(TrulyNewAssets, "closure_record")
            /\ UNCHANGED closure_exit
    /\ UNCHANGED <<unitVars, siteVars,
                   phases, result, download_results, url_mapping,
                   managerVars, asset_todo, fetch_count, iteration,
                   processed_css_files, css_todo, new_assets, mined_count,
                   css_import_graph, css_depth_tracker, retryVars,
                   mapping_at_rewrite, state_saved>>

\* sitecloner.py:482-486
ClosureRecord ==
    /\ pc = "closure_record"
    /\ url_mapping' = MappingWith(url_mapping, du_result)
    /\ download_results' = ResultsWith(download_results, du_result)
    /\ pc' = "closure_head"
    /\ du_status' = "idle"
    /\ UNCHANGED <<unitVars, siteVars,
                   phases, result, discovered_urls, managerVars,
                   asset_todo, task, du_arg, du_pre, du_new, du_fetched,
                   du_ret, du_result, fetch_count, closureVars, retryVars,
                   mapping_at_rewrite, state_saved>>

(***************************************************************************)
(* DownloadManager.retry_failed_downloads (download_manager.py:451-502),   *)
(* called by clone_site at sitecloner.py:164-171.                          *)
(***************************************************************************)
FailedIn(dr) == {u \in AssetUrls : dr[u].present /\ ~dr[u].success}

RetryBegin ==
    /\ pc = "retry_begin"
    /\ phases' = Append(phases, "retry-failed")
    /\ retry_attempt' = 0
    /\ retry_results' = EmptyResults
    /\ config_at_call' = config
    /\ pc' = "retry_head"
    /\ UNCHANGED <<unitVars, site, max_concurrent_downloads, config,
                   original_config,
                   result, clonerVars, managerVars, asset_todo,
                   callVars, fetch_count, closureVars, mapping_at_rewrite,
                   state_saved>>

\* download_manager.py:455-480: one outer pass collects the failed URLs and
\* hands them to download_urls; the loop ends when none is left or after
\* max_attempts passes.
\* A pass that leaves the relaxed parameters in place.
NotRestored(original, current) == current

\* download_manager.py:491-495: the finally clause puts the original
\* parameters back.
Restored(original, current) == original

\* download_manager.py:468-476: the parameters of pass `attempt`.
Relaxed(original, n) ==
    [max_retries |-> Min(5, original.max_retries + n),
     connection_timeout |-> Min(60, original.connection_timeout + n * 10),
     retry_delay |-> original.retry_delay + n]

\* An exception that leaves download_urls during a pass goes through the
\* finally clause.
ConfigAfterRaise ==
    IF pc = "downloading" /\ du_ret = "retry_record"
    THEN Restored(original_config, config)
    ELSE config

RetryPass ==
    /\ pc = "retry_head"
    /\ IF retry_attempt < max_attempts /\ FailedIn(download_results) # {}
       THEN /\ CallDownload(FailedIn(download_results), "retry_record")
            /\ original_config' = config
            /\ config' = Relaxed(config, retry_attempt)
       ELSE /\ pc' = "retry_done"
            /\ UNCHANGED <<callVars, config, original_config>>
    /\ UNCHANGED <<unitVars, site, max_concurrent_downloads, config_at_call,
                   phases, result, clonerVars, managerVars,
                   asset_todo, fetch_count, closureVars, retryVars,
                   mapping_at_rewrite, state_saved>>

\* download_manager.py:481-489: the pass's results replace the failed ones.
RetryRecord ==
    /\ pc = "retry_record"
    /\ retry_results' = ResultsWith(retry_results, du_result)
    /\ download_results' = ResultsWith(download_results, du_result)
    /\ downloaded_urls' = downloaded_urls \cup
          {u \in AssetUrls : du_result[u].present /\ du_result[u].success}
    /\ failed_urls' = failed_urls \
          {u \in AssetUrls : du_result[u].present /\ du_result[u].success}
    /\ retry_attempt' = retry_attempt + 1
    /\ config' = Restored(original_config, config)
    /\ pc' = "retry_head"
    /\ du_status' = "idle"
    /\ UNCHANGED <<unitVars, site, max_concurrent_downloads, original_config,
                   config_at_call,
                   phases, result, discovered_urls, url_mapping,
                   asset_todo, task, du_arg, du_pre, du_new, du_fetched,
                   du_ret, du_result, fetch_count, closureVars,
                   mapping_at_rewrite, state_saved>>

\* sitecloner.py:168-171: successful retries enter the URL mapping.
RetryDone ==
    /\ pc = "retry_done"
    /\ url_mapping' = MappingWith(url_mapping, retry_results)
    /\ pc' = "rewrite"
    /\ UNCHANGED <<unitVars, siteVars, phases, result, discovered_urls,
                   download_results, managerVars, asset_todo, callVars,
                   fetch_count, closureVars, retryVars, mapping_at_rewrite,
                   state_saved>>

(***************************************************************************)
(* Phases 4 to 6 and the summary (sitecloner.py:173-194).                  *)
(***************************************************************************)
\* sitecloner.py:175  rewrite_all_files reads url_mapping.
Rewrite ==
    /\ pc = "rewrite"
    /\ phases' = Append(phases, "rewrite")
    /\ mapping_at_rewrite' = url_mapping
    /\ pc' = "metadata"
    /\ UNCHANGED <<unitVars, siteVars,
                   result, clonerVars, managerVars, asset_todo,
                   callVars, fetch_count, closureVars, retryVars, state_saved>>

\* sitecloner.py:177-179
SaveMetadata ==
    /\ pc = "metadata"
    /\ phases' = IF save_metadata THEN Append(phases, "persist-metadata")
                 ELSE phases
    /\ pc' = "summary"
    /\ UNCHANGED <<unitVars, siteVars,
                   result, clonerVars, managerVars, asset_todo,
                   callVars, fetch_count, closureVars, retryVars,
                   mapping_at_rewrite, state_saved>>

\* _is_essential_for_rendering (sitecloner.py:618-659)
NonEssentialUrl(u) == u = Tracker
NonEssentialError(err) == err = "HTTP 403: Forbidden"
IsEssentialForRendering(u, err) ==
    ~NonEssentialUrl(u) /\ ~NonEssentialError(err)

\* _verify_downloads (sitecloner.py:661-717); every successful result of
\* the model has its file in place, so missing_files is empty.
EssentialFailed(dr) ==
    {u \in FailedIn(dr) : IsEssentialForRendering(u, dr[u].error)}
NonEssentialFailed(dr) == FailedIn(dr) \ EssentialFailed(dr)
VerifyDownloads ==
    (discovered_urls \ Keys(download_results)) \cup
        EssentialFailed(download_results) = {}

\* The value clone_site returns after the summary (sitecloner.py:186-189).
CloneSiteReturn(all_downloaded) == "true"

\* sitecloner.py:186-189: _print_summary computes all_downloaded for its
\* report; then clone_site returns.
Summary ==
    /\ pc = "summary"
    /\ result' = CloneSiteReturn(VerifyDownloads)
    /\ pc' = "returned"
    /\ UNCHANGED <<unitVars, siteVars,
                   phases, clonerVars, managerVars, asset_todo,
                   callVars, fetch_count, closureVars, retryVars,
                   mapping_at_rewrite, state_saved>>

\* A save_state that leaves the per-URL results out.
SavedStateWithoutResults ==
    [exists |-> TRUE, target_url |-> Root,
     discovered_urls |-> discovered_urls,
     download_results |-> EmptyResults, url_mapping |-> url_mapping]

\* save_state (sitecloner.py:210-234): what it writes to the state file.
SavedState ==
    [exists |-> TRUE, target_url |-> Root,
     discovered_urls |-> discovered_urls,
     download_results |-> download_results, url_mapping |-> url_mapping]

\* sitecloner.py:191-194: an exception escaping a phase ends the run:
\* save_state, return False.  download_urls raises before its tasks exist
\* (the output directory cannot be created, line 107) or after gather (a
\* result that is no DownloadResult, line 179); _save_metadata raises when a
\* metadata file cannot be written (sitecloner.py:561).
PhaseException ==
    /\ \/ /\ pc = "downloading"
          /\ du_fetched = {}
          /\ task' = [u \in AssetUrls |-> "none"]
       \/ /\ pc = "downloading"
          /\ GatherReady
          /\ UNCHANGED task
       \/ /\ pc = "metadata"
          /\ UNCHANGED task
    /\ config' = ConfigAfterRaise
    /\ state_saved' = TRUE
    /\ state_file' = SavedState
    /\ result' = "false"
    /\ pc' = "returned"
    /\ UNCHANGED <<restVars, site, max_concurrent_downloads, original_config,
                   config_at_call,
                   phases, clonerVars, managerVars, asset_todo,
                   du_arg, du_pre, du_new, du_fetched, du_ret, du_result,
                   du_status, fetch_count, closureVars, retryVars,
                   mapping_at_rewrite>>

(***************************************************************************)
(* Checkpoints and recovery: load_state, cleanup_state and                 *)
(* clone_site_with_recovery (sitecloner.py:236-329), main                  *)
(* (sitecloner.py:855-859).                                                *)
(***************************************************************************)
max_recovery_attempts == 3
MaxRestarts == 1

\* A load_state that takes any state file it finds.
StateFileExists == state_file.exists

\* sitecloner.py:239-248: load_state goes on only when the state file exists
\* and was written for the same target URL.
StateFileUsable == state_file.exists /\ state_file.target_url = Root

\* sitecloner.py:251  self.discovered_urls = set(state['discovered_urls'])
LoadedDiscovered(cur) ==
    IF StateFileUsable THEN state_file.discovered_urls ELSE cur
\* sitecloner.py:255-263: every saved result is put back in download_results.
LoadedResults(cur) ==
    IF StateFileUsable THEN ResultsWith(cur, state_file.download_results)
    ELSE cur
\* A load_state that leaves the URL mapping as it finds it.
LoadedMappingSkipped(cur) == cur

\* sitecloner.py:266-268: every saved mapping entry is put back.
LoadedMapping(cur) ==
    IF StateFileUsable
    THEN [u \in AllUrls |->
            IF state_file.url_mapping[u] # "" THEN state_file.url_mapping[u]
            ELSE cur[u]]
    ELSE cur
\* sitecloner.py:271-275: the download manager's sets follow the results.
LoadedDownloaded(cur, res) ==
    IF StateFileUsable
    THEN cur \cup {u \in AssetUrls : res[u].present /\ res[u].success}
    ELSE cur
LoadedFailed(cur, res) ==
    IF StateFileUsable THEN cur \cup FailedIn(res) ELSE cur

\* A call of clone_site: its locals and the locals of the calls it makes
\* start afresh; the fields of the objects are what they are.
FreshLocals ==
    /\ phases' = <<>>
    /\ result' = "none"
    /\ asset_todo' = {}
    /\ task' = [u \in AssetUrls |-> "none"]
    /\ du_arg' = {}
    /\ du_pre' = {}
    /\ du_new' = {}
    /\ du_fetched' = {}
    /\ du_ret' = "none"
    /\ du_result' = EmptyResults
    /\ du_status' = "idle"
    /\ iteration' = 0
    /\ processed_css_files' = {}
    /\ css_todo' = {}
    /\ new_assets' = {}
    /\ mined_count' = [u \in AssetUrls |-> 0]
    /\ fetch_count' = [u \in AssetUrls |-> 0]
    /\ css_import_graph' = [u \in AssetUrls |-> {}]
    /\ css_depth_tracker' = [u \in AssetUrls |-> 0]
    /\ closure_exit' = "none"
    /\ retry_attempt' = 0
    /\ retry_results' = EmptyResults
    /\ mapping_at_rewrite' = NoMapping
CallCloneSite ==
    /\ pc' = "fetch_root"
    /\ FreshLocals

\* load_state (sitecloner.py:236-282) applied to the fields as they are.
LoadState(disc, res, map, done, failed) ==
    /\ discovered_urls' = LoadedDiscovered(disc)
    /\ download_results' = LoadedResults(res)
    /\ url_mapping' = LoadedMapping(map)
    /\ downloaded_urls' = LoadedDownloaded(done, LoadedResults(res))
    /\ failed_urls' = LoadedFailed(failed, LoadedResults(res))

\* What a run may have left in the fields: a result for some assets, the
\* mapping entries of the successes (and of the root page), the sets of the
\* download manager in step with the results.
FieldResults ==
    [AssetUrls -> {NoResult, SuccessResult,
                   FailedResult("HTTP 500: Internal Server Error")}]
FieldMapping(res, root_mapped) ==
    [u \in AllUrls |->
        IF u = Root THEN (IF root_mapped THEN LocalPathOf(Root) ELSE "")
        ELSE IF res[u].present /\ res[u].success THEN LocalPathOf(u)
        ELSE ""]
Fields ==
    [discovered_urls |-> discovered_urls,
     download_results |-> download_results, url_mapping |-> url_mapping,
     downloaded_urls |-> downloaded_urls, failed_urls |-> failed_urls]

\* The state files a cloner may find: none, one that save_state wrote for
\* this target, and one that it wrote for another target.
StateFileFor(target) ==
    [exists |-> TRUE, target_url |-> target,
     discovered_urls |-> {CssA, Img, Tracker},
     download_results |->
        [u \in AssetUrls |->
            IF u \in {CssA, Tracker} THEN SuccessResult
            ELSE IF u = Img
                 THEN FailedResult("HTTP 500: Internal Server Error")
            ELSE NoResult],
     url_mapping |->
        [u \in AllUrls |->
            IF u \in {Root, CssA, Tracker} THEN LocalPathOf(u) ELSE ""]]
OtherTarget == "https://other.test/"
StateFiles == {NoStateFile, StateFileFor(Root), StateFileFor(OtherTarget)}

LoadInit ==
    /\ site = [page |-> {}, a |-> {}, b |-> {}]
    /\ max_concurrent_downloads = 1
    /\ inputs = FreeInputs
    /\ pc = "not_called"
    /\ LocalsAtRest
    /\ \E res \in FieldResults, root_mapped \in BOOLEAN :
          /\ download_results = res
          /\ url_mapping = FieldMapping(res, root_mapped)
          /\ discovered_urls = {u \in AssetUrls : res[u].present}
          /\ downloaded_urls =
                {u \in AssetUrls : res[u].present /\ res[u].success}
          /\ failed_urls = FailedIn(res)
    /\ state_file \in StateFiles
    /\ recovery_pc = "direct"
    /\ recovery_attempt = 0
    /\ recovery_result = "none"
    /\ restarts = 0
    /\ executions = 0
    /\ successes = 0
    /\ load_pc = "ready"
    /\ load_returned = FALSE
    /\ fields_at_call = Fields

LoadIdle ==
    /\ load_pc = "ready"
    /\ load_returned = FALSE
    /\ fields_at_call = [discovered_urls |-> {},
                         download_results |-> EmptyResults,
                         url_mapping |-> NoMapping,
                         downloaded_urls |-> {}, failed_urls |-> {}]

\* load_state (sitecloner.py:236-282) called on a cloner that is not
\* running.
LoadStateCall ==
    /\ load_pc = "ready"
    /\ LoadState(discovered_urls, download_results, url_mapping,
                 downloaded_urls, failed_urls)
    /\ load_returned' = StateFileUsable
    /\ load_pc' = "returned"
    /\ UNCHANGED <<otherThanCloner, siteVars, inputs, state_saved,
                   state_file, shutdown_requested, recoveryVars, pc, phases,
                   result, asset_todo, callVars, fetch_count, closureVars,
                   retryVars, mapping_at_rewrite, fields_at_call>>

\* A loop that allows one attempt too many.
OneAttemptMore == recovery_attempt <= max_recovery_attempts

\* sitecloner.py:297  while recovery_attempt < self.max_recovery_attempts
AttemptsLeft == recovery_attempt < max_recovery_attempts

\* sitecloner.py:297-305: the loop of clone_site_with_recovery makes an
\* attempt; every attempt but the first calls load_state before clone_site.
RecoveryAttempt ==
    /\ recovery_pc = "loop_head"
    /\ AttemptsLeft
    /\ executions' = executions + 1
    /\ IF recovery_attempt > 0
       THEN LoadState(discovered_urls, download_results, url_mapping,
                      downloaded_urls, failed_urls)
       ELSE UNCHANGED <<clonerVars, managerVars>>
    /\ CallCloneSite
    /\ recovery_pc' = "in_clone_site"
    /\ UNCHANGED <<funcVars, siteVars, inputs,
                   state_saved, state_file, shutdown_requested,
                   recovery_attempt, recovery_result, restarts, successes>>

\* sitecloner.py:307-315: clone_site returned.  True: cleanup_state removes
\* the state file and True is returned; False: one more attempt.
RecoveryReturn ==
    /\ recovery_pc = "in_clone_site"
    /\ pc = "returned"
    /\ IF result = "true"
       THEN /\ state_file' = NoStateFile
            /\ recovery_result' = "true"
            /\ recovery_pc' = "done"
            /\ successes' = successes + 1
            /\ UNCHANGED recovery_attempt
       ELSE /\ recovery_attempt' = recovery_attempt + 1
            /\ recovery_pc' = "loop_head"
            /\ UNCHANGED <<state_file, recovery_result, successes>>
    /\ UNCHANGED <<funcVars, siteVars, inputs, pc, phases, result,
                   clonerVars, managerVars, asset_todo, callVars, fetch_count,
                   closureVars, retryVars, mapping_at_rewrite, state_saved,
                   shutdown_requested, restarts, executions>>

\* sitecloner.py:318-321: KeyboardInterrupt is raised while clone_site runs
\* (it is no Exception, so clone_site does not catch it): save_state,
\* return False.  The fetches in flight are abandoned.
RecoveryInterrupted ==
    /\ recovery_pc = "in_clone_site"
    /\ pc # "returned"
    /\ pc' = "returned"
    /\ result' = "interrupted"
    /\ task' = [u \in AssetUrls |-> "none"]
    /\ state_saved' = TRUE
    /\ state_file' = SavedState
    /\ recovery_result' = "false"
    /\ recovery_pc' = "done"
    /\ config' = ConfigAfterRaise
    /\ UNCHANGED <<funcVars, site, max_concurrent_downloads, original_config,
                   config_at_call, inputs, phases,
                   clonerVars, managerVars, asset_todo, du_arg, du_pre,
                   du_new, du_fetched, du_ret, du_result, du_status,
                   fetch_count, closureVars, retryVars, mapping_at_rewrite,
                   shutdown_requested, recovery_attempt, restarts,
                   executions, successes>>

\* sitecloner.py:328-329: the attempts are used up.  (The handler of
\* sitecloner.py:322-327 is never entered: clone_site, load_state and
\* cleanup_state catch every Exception themselves.)
RecoveryGiveUp ==
    /\ recovery_pc = "loop_head"
    /\ ~AttemptsLeft
    /\ recovery_result' = "false"
    /\ recovery_pc' = "done"
    /\ UNCHANGED <<funcVars, siteVars, inputs, pc, phases, result,
                   clonerVars, managerVars, asset_todo, callVars, fetch_count,
                   closureVars, retryVars, mapping_at_rewrite, state_saved,
                   state_file, shutdown_requested, recovery_attempt, restarts,
                   executions, successes>>

\* sitecloner.py:857-859: clone_site, called by main or by a caller that
\* restored the checkpoint first, returned; the process exits.
MainReturn ==
    /\ recovery_pc \in {"main", "resume"}
    /\ pc = "returned"
    /\ recovery_result' = result
    /\ recovery_pc' = "exited"
    /\ UNCHANGED <<funcVars, siteVars, inputs, pc, phases, result,
                   clonerVars, managerVars, asset_todo, callVars, fetch_count,
                   closureVars, retryVars, mapping_at_rewrite, state_saved,
                   state_file, shutdown_requested, recovery_attempt, restarts,
                   executions, successes>>

\* How a process on the output directory is run: main, which calls
\* clone_site (sitecloner.py:855-857); a caller that calls load_state and
\* then clone_site; or a caller of clone_site_with_recovery.
Entries == {"main", "resume", "loop_head"}

\* A new process on the same output directory: the objects are constructed
\* anew (sitecloner.py:40-52); the state file and the downloaded files are
\* what the process before left.
Restart(entry) ==
    /\ recovery_pc \in {"done", "exited"}
    /\ restarts < MaxRestarts
    /\ restarts' = restarts + 1
    /\ recovery_pc' = entry
    /\ recovery_attempt' = 0
    /\ executions' = 0
    /\ successes' = 0
    /\ recovery_result' = "none"
    /\ shutdown_requested' = FALSE
    /\ IF entry = "resume"
       THEN LoadState({}, EmptyResults, NoMapping, {}, {})
       ELSE /\ discovered_urls' = {}
            /\ download_results' = EmptyResults
            /\ url_mapping' = NoMapping
            /\ downloaded_urls' = {}
            /\ failed_urls' = {}
    /\ pc' = IF entry = "loop_head" THEN "not_called" ELSE "fetch_root"
    /\ FreshLocals
    /\ config' = DefaultConfig
    /\ original_config' = DefaultConfig
    /\ config_at_call' = DefaultConfig
    /\ UNCHANGED <<funcVars, site, max_concurrent_downloads, inputs,
                   state_saved, state_file>>

\* signal_handler (sitecloner.py:198-202), installed for SIGINT and SIGTERM:
\* it sets shutdown_requested and closes the progress bar.  The signal may
\* arrive at any point of a run.
SignalHandler ==
    /\ pc # "returned"
    /\ ~shutdown_requested
    /\ shutdown_requested' = TRUE
    /\ UNCHANGED <<funcVars, inputs, recoveryVars, state_file,
                   siteVars, pc, phases, result, clonerVars, managerVars,
                   asset_todo, callVars, fetch_count, closureVars, retryVars,
                   mapping_at_rewrite, state_saved>>

(***************************************************************************)
(* URLResolver.url_to_local_path (url_resolver.py:201-276).                *)
(* A text is a sequence of pieces.  The pieces of a URL are single         *)
(* characters or percent-escapes; the words the code itself writes         *)
(* ('index', 'html', 'unnamed', the hex digest of a hash) are one piece    *)
(* each.  A path is a sequence of names, each name a text.                 *)
(***************************************************************************)
Nul == "NUL"                  \* the character '\x00'
FullwidthDot == "U+FF0E"      \* FULLWIDTH FULL STOP, a look-alike of '.'

\* The longest URL path, in pieces.
MaxPathLen == 4

\* What the path of a URL is written with.
PathTokens == {"a", ".", "/", "%2e", "%2f", "%00", "%EF%BC%8E"}
PathTexts == UNION {[1..n -> PathTokens] : n \in 0..MaxPathLen}
\* The authority of the URL: a host, no authority, or the host '..'.
Netlocs == {<<"a">>, <<>>, <<".", ".">>}
PathUrls == [netloc : Netlocs, path : PathTexts, query : BOOLEAN]
\* url_resolver.py:16  self.base_url: the root page, host 'a' and no path.
base_url == [netloc |-> <<"a">>, path |-> <<>>, query |-> FALSE]

OutputDirs == {<< <<"out">> >>, << <<"srv">>, <<"out">> >>}
\* Where a symbolic link of the file system leads.
SymlinkTarget == << <<"outside">> >>
\* The file system: no link, or the host's directory under the output
\* directory is a link to a directory outside it.
SymlinkChoices(dir) == {{}, {Append(dir, <<"a">>)}}

\* urllib.parse.unquote: every percent-escape becomes its character.
UnquotePiece(t) ==
    CASE t = "%2e" -> "."
      [] t = "%2f" -> "/"
      [] t = "%00" -> Nul
      [] t = "%EF%BC%8E" -> FullwidthDot
      [] OTHER -> t
unquote(text) == [i \in DOMAIN text |-> UnquotePiece(text[i])]

\* str.split(sep): the texts between the separators, empty ones included.
RECURSIVE split(_, _)
split(text, sep) ==
    IF \A i \in DOMAIN text : text[i] # sep
    THEN <<text>>
    ELSE LET k == CHOOSE i \in DOMAIN text :
                      text[i] = sep /\ \A j \in 1..(i - 1) : text[j] # sep
         IN <<SubSeq(text, 1, k - 1)>>
                \o split(SubSeq(text, k + 1, Len(text)), sep)

NonEmptyText(t) == t # <<>>
HasDot(text) == \E i \in DOMAIN text : text[i] = "."
\* str.rsplit('.', 1) of a text with a dot: the position of its last dot.
LastDot(text) ==
    CHOOSE i \in DOMAIN text :
        text[i] = "." /\ \A j \in (i + 1)..Len(text) : text[j] # "."

\* Pieces that are letters and digits.
AlnumPieces == {"a", "index", "html", "unnamed", "hash"}
\* Pieces matched by the class [\w\s.-] of url_resolver.py:295.
KeptPieces == AlnumPieces \cup {".", "_", "-", "_q", "safe_file_"}

\* url_resolver.py:288  unicodedata.normalize('NFKC', filename)
Nfkc(text) ==
    [i \in DOMAIN text |-> IF text[i] = FullwidthDot THEN "." ELSE text[i]]
\* url_resolver.py:291  the null byte is removed.
RemoveNul(text) == SelectSeq(text, LAMBDA c : c # Nul)
\* url_resolver.py:295  re.sub(r'[^\w\s.-]', '_', filename)
Whitelist(text) ==
    [i \in DOMAIN text |-> IF text[i] \in KeptPieces THEN text[i] ELSE "_"]
\* url_resolver.py:301  .replace('..', '_'), leftmost pairs first
RECURSIVE ReplaceDotDot(_)
ReplaceDotDot(text) ==
    IF Len(text) < 2 THEN text
    ELSE IF text[1] = "." /\ text[2] = "."
         THEN <<"_">> \o ReplaceDotDot(SubSeq(text, 3, Len(text)))
         ELSE <<text[1]>> \o ReplaceDotDot(Tail(text))
\* url_resolver.py:301  .replace('/', '_').replace('\\', '_')
ReplaceSeparators(text) ==
    [i \in DOMAIN text |-> IF text[i] \in {"/", "\\"} THEN "_" ELSE text[i]]
\* url_resolver.py:304  sanitized.strip('. ')
RECURSIVE LStripDots(_)
LStripDots(text) ==
    IF text # <<>> /\ text[1] = "." THEN LStripDots(Tail(text)) ELSE text
RECURSIVE RStripDots(_)
RStripDots(text) ==
    IF text # <<>> /\ text[Len(text)] = "."
    THEN RStripDots(SubSeq(text, 1, Len(text) - 1))
    ELSE text

\* url_resolver.py:282-330.  No name over these pieces is a reserved device
\* name or longer than 100 characters, so lines 306-325 leave it as it is.
secure_sanitize_filename(filename) ==
    IF filename = <<>> THEN <<"unnamed">>
    ELSE LET sanitized ==
                 RStripDots(LStripDots(ReplaceSeparators(ReplaceDotDot(
                     Whitelist(RemoveNul(Nfkc(filename)))))))
         IN IF sanitized = <<>> THEN <<"unnamed">> ELSE sanitized

\* url_resolver.py:332-347
sanitize_extension(extension) ==
    IF extension = <<>> THEN <<"html">>
    ELSE LET ext == SelectSeq(extension, LAMBDA c : c \in AlnumPieces)
         IN IF ext = <<>> THEN <<"html">> ELSE ext

\* url_resolver.py:349-376: the extensions of the two lists that can be
\* written with the pieces.
valid_extensions == {<<"html">>}
binary_extensions == {}
ExtensionOf(name) == SubSeq(name, LastDot(name) + 1, Len(name))
has_valid_extension(name) ==
    HasDot(name) /\ ExtensionOf(name) \in valid_extensions
is_binary_extension(name) ==
    HasDot(name) /\ ExtensionOf(name) \in binary_extensions

\* url_resolver.py:379-383  safe_file_<md5(url)[:12]>.html
create_safe_fallback_name(u) == <<"safe_file_", "hash", ".", "html">>

\* url_resolver.py:213-230: the sanitized host, then every non-empty
\* component of the decoded path, sanitized, unless it is '.' or '..'.
PathParts(u) ==
    LET domain == secure_sanitize_filename(u.netloc)
        path_components ==
            SelectSeq(split(unquote(u.path), "/"), NonEmptyText)
        sanitized ==
            [i \in DOMAIN path_components |->
                secure_sanitize_filename(path_components[i])]
    IN <<IF domain = <<>> THEN <<"unknown_domain">> ELSE domain>>
         \o SelectSeq(sanitized,
                      LAMBDA c : c # <<>> /\ c \notin {<<".">>, <<".", ".">>})

\* url_resolver.py:232-244: a query becomes a hash in the last name.
WithQuery(path_parts, u) ==
    IF u.query /\ path_parts # <<>>
    THEN LET last_part == path_parts[Len(path_parts)]
             renamed ==
                 IF HasDot(last_part)
                 THEN SubSeq(last_part, 1, LastDot(last_part) - 1)
                        \o <<"_q", "hash", ".">>
                        \o sanitize_extension(ExtensionOf(last_part))
                 ELSE last_part \o <<"_q", "hash", ".", "html">>
         IN [path_parts EXCEPT ![Len(path_parts)] = renamed]
    ELSE path_parts

\* url_resolver.py:246-253: the last name gets an extension.
WithExtension(path_parts) ==
    IF path_parts = <<>> \/ ~HasDot(path_parts[Len(path_parts)])
    THEN Append(path_parts, <<"index", ".", "html">>)
    ELSE LET last_part == path_parts[Len(path_parts)]
         IN IF ~has_valid_extension(last_part)
                  /\ ~is_binary_extension(last_part)
            THEN [path_parts EXCEPT
                     ![Len(path_parts)] = last_part \o <<".", "html">>]
            ELSE path_parts

\* pathlib: dir / Path(*parts).  A part is cut at its separators; a part
\* that begins with one is absolute and replaces what came before it.
RECURSIVE JoinPath(_, _)
JoinPath(dir, parts) ==
    IF parts = <<>> THEN dir
    ELSE LET part == Head(parts)
             names == SelectSeq(split(part, "/"),
                                LAMBDA n : n # <<>> /\ n # <<".">>)
         IN JoinPath(IF part # <<>> /\ part[1] = "/"
                     THEN names ELSE dir \o names,
                     Tail(parts))

\* Path.resolve(): '.' is dropped, '..' steps up, and a symbolic link is
\* replaced by what it leads to.
RECURSIVE ResolveFrom(_, _)
ResolveFrom(done, rest) ==
    IF rest = <<>> THEN done
    ELSE LET name == Head(rest)
             step == IF name = <<".">> THEN done
                     ELSE IF name = <<".", ".">>
                          THEN SubSeq(done, 1, Len(done) - 1)
                          ELSE Append(done, name)
         IN ResolveFrom(IF step \in symlinks THEN SymlinkTarget ELSE step,
                        Tail(rest))
resolve(path) == ResolveFrom(<<>>, path)

\* Path.resolve() raises ValueError for a name with a null byte.
RaisesValueError(path) ==
    \E i \in DOMAIN path : \E j \in DOMAIN path[i] : path[i][j] = Nul

IsPathPrefix(dir, path) ==
    Len(dir) <= Len(path) /\ SubSeq(path, 1, Len(dir)) = dir

\* A check that lets every path through.
ContainmentUnchecked(resolved_local, resolved_output) == TRUE

\* url_resolver.py:265  resolved_local.relative_to(resolved_output) succeeds
WithinOutputDir(resolved_local, resolved_output) ==
    IsPathPrefix(resolved_output, resolved_local)

\* url_resolver.py:246-259: the path as assembled, before it is verified.
AssembledPath(u, dir) == JoinPath(dir, WithExtension(WithQuery(PathParts(u), u)))

\* url_resolver.py:201-276
url_to_local_path(u, dir) ==
    IF u = base_url
    THEN Append(dir, <<"index", ".", "html">>)
    ELSE LET assembled == AssembledPath(u, dir)
         IN IF RaisesValueError(assembled)
            THEN Append(dir, create_safe_fallback_name(u))
            ELSE IF WithinOutputDir(resolve(assembled), resolve(dir))
                 THEN assembled
                 ELSE Append(dir, create_safe_fallback_name(u))

NoPath == <<>>

PathInit ==
    /\ path_url \in PathUrls
    /\ output_dir \in OutputDirs
    /\ symlinks \in SymlinkChoices(output_dir)
    /\ path_pc = "ready"
    /\ local_path = NoPath

PathIdle ==
    /\ path_url = base_url
    /\ output_dir = << <<"out">> >>
    /\ symlinks = {}
    /\ path_pc = "ready"
    /\ local_path = NoPath

\* One call of url_to_local_path(url, output_dir).
MapUrl ==
    /\ path_pc = "ready"
    /\ local_path' = url_to_local_path(path_url, output_dir)
    /\ path_pc' = "returned"
    /\ UNCHANGED <<otherThanPath,
                   path_url, output_dir,
                   symlinks>>

(***************************************************************************)
(* URLResolver.resolve_url (url_resolver.py:27-190).  A URL text is a      *)
(* sequence of pieces: the characters '/', '.', '?', '#', '&', ' ' and a   *)
(* letter, and words that are never split: a scheme with its colon, a     *)
(* host name, a query parameter, a percent-escape, a long path segment.    *)
(***************************************************************************)
Space == " "
\* A path segment that makes a URL about as long as resolve_url accepts.
LongSegmentLen == 2029
LongSegment == "x...x"
\* url_resolver.py:118  len(url) > 2048
MaxUrlChars == 2048

\* The longest path of a reference, in pieces.
MaxRefPath == 4

SchemePieces == {"http:", "https:", "HTTPS:", "data:", "ftp:"}
\* str.lower(), piece by piece.
LowerPiece(p) ==
    CASE p = "HTTPS:" -> "https:"
      [] p = "CDN.Test" -> "cdn.test"
      [] OTHER -> p
lower(text) == [i \in DOMAIN text |-> LowerPiece(text[i])]

\* len(), piece by piece.
PieceLen(p) ==
    CASE p = LongSegment -> LongSegmentLen
      [] p \in {"localhost"} -> 9
      [] p \in {"cdn.test", "CDN.Test", "10.0.0.1"} -> 8
      [] p \in {"ex.test"} -> 7
      [] p \in {"https:", "HTTPS:"} -> 6
      [] p \in {"http:", "data:", "q=%2F"} -> 5
      [] p \in {"ftp:"} -> 4
      [] p \in {"a=1", "b=2", "q=/", "%2e", "dir"} -> 3
      [] p \in {"c="} -> 2
      [] OTHER -> 1
RECURSIVE TextLen(_)
TextLen(text) ==
    IF text = <<>> THEN 0 ELSE PieceLen(Head(text)) + TextLen(Tail(text))

\* str.strip(): white space is removed from both ends.
RECURSIVE lstrip(_)
lstrip(text) ==
    IF text # <<>> /\ text[1] = Space THEN lstrip(Tail(text)) ELSE text
RECURSIVE rstrip(_)
rstrip(text) ==
    IF text # <<>> /\ text[Len(text)] = Space
    THEN rstrip(SubSeq(text, 1, Len(text) - 1))
    ELSE text
strip(text) == rstrip(lstrip(text))

\* str.startswith(prefix) and `pattern in text`.
StartsWith(text, prefix) ==
    Len(text) >= Len(prefix) /\ SubSeq(text, 1, Len(prefix)) = prefix
Contains(text, pattern) ==
    \E i \in 1..(Len(text) - Len(pattern) + 1) :
        SubSeq(text, i, i + Len(pattern) - 1) = pattern

\* The position of the first piece of text that is in seps (one past the
\* end when there is none), and the text before and after a position.
FirstOf(text, seps) ==
    IF \E i \in DOMAIN text : text[i] \in seps
    THEN CHOOSE i \in DOMAIN text :
             text[i] \in seps /\ \A j \in 1..(i - 1) : text[j] \notin seps
    ELSE Len(text) + 1
Before(text, k) == SubSeq(text, 1, k - 1)
After(text, k) == SubSeq(text, k + 1, Len(text))

\* sep.join(texts)
RECURSIVE Join(_, _)
Join(texts, sep) ==
    IF texts = <<>> THEN <<>>
    ELSE IF Len(texts) = 1 THEN texts[1]
    ELSE texts[1] \o <<sep>> \o Join(Tail(texts), sep)

\* urllib.parse.urlparse as resolve_url uses it: the scheme (lower-cased,
\* with its colon), the netloc after '//', and the rest split at the first
\* '#' and then at the first '?'.  No text of the model has a ';', so params
\* is always empty and left out.
urlparse(url) ==
    LET has_scheme == url # <<>> /\ url[1] \in SchemePieces
        rest1 == IF has_scheme THEN Tail(url) ELSE url
        has_netloc == StartsWith(rest1, <<"/", "/">>)
        rest2 == IF has_netloc THEN SubSeq(rest1, 3, Len(rest1)) ELSE rest1
        n == IF has_netloc THEN FirstOf(rest2, {"/", "?", "#"}) ELSE 1
        rest3 == SubSeq(rest2, n, Len(rest2))
        h == FirstOf(rest3, {"#"})
        rest4 == Before(rest3, h)
        q == FirstOf(rest4, {"?"})
    IN  [scheme |-> IF has_scheme THEN <<LowerPiece(url[1])>> ELSE <<>>,
         netloc |-> Before(rest2, n),
         path |-> Before(rest4, q),
         query |-> After(rest4, q),
         fragment |-> After(rest3, h)]

\* urllib.parse: uses_netloc and uses_relative, as far as the schemes of the
\* model go.
uses_netloc == {<<"http:">>, <<"https:">>, <<"ftp:">>}
uses_relative == {<<>>, <<"http:">>, <<"https:">>, <<"ftp:">>}

\* urllib.parse.urlunparse
urlunparse(p) ==
    LET with_netloc ==
            \/ p.netloc # <<>>
            \/ p.scheme \in uses_netloc /\ ~StartsWith(p.path, <<"/", "/">>)
        rooted == IF p.path # <<>> /\ p.path[1] # "/"
                  THEN <<"/">> \o p.path ELSE p.path
        url == IF with_netloc THEN <<"/", "/">> \o p.netloc \o rooted
               ELSE p.path
    IN  p.scheme
          \o url
          \o (IF p.query # <<>> THEN <<"?">> \o p.query ELSE <<>>)
          \o (IF p.fragment # <<>> THEN <<"#">> \o p.fragment ELSE <<>>)

\* The dot segments of a list of path segments are removed as urljoin
\* removes them.
RECURSIVE RemoveDotSegments(_, _)
RemoveDotSegments(done, rest) ==
    IF rest = <<>> THEN done
    ELSE LET seg == Head(rest)
         IN RemoveDotSegments(
                IF seg = <<".", ".">>
                THEN SubSeq(done, 1, Len(done) - 1)
                ELSE IF seg = <<".">> THEN done
                ELSE Append(done, seg),
                Tail(rest))

\* urllib.parse.urljoin, its last part: the path of a relative reference is
\* merged with the path of the base and its dot segments are removed.
MergedPath(bpath, path) ==
    LET base_all == split(bpath, "/")
        base_parts == IF base_all[Len(base_all)] # <<>>
                      THEN SubSeq(base_all, 1, Len(base_all) - 1)
                      ELSE base_all
        segments == IF path[1] = "/" THEN split(path, "/")
                    ELSE base_parts \o split(path, "/")
        last == segments[Len(segments)]
        middle == SelectSeq(SubSeq(segments, 2, Len(segments) - 1),
                            LAMBDA s : s # <<>>)
        filtered == IF Len(segments) < 2 THEN segments
                    ELSE <<segments[1]>> \o middle \o <<last>>
        kept == RemoveDotSegments(<<>>, filtered)
        resolved_path == IF last \in {<<".">>, <<".", ".">>}
                         THEN Append(kept, <<>>) ELSE kept
        joined == Join(resolved_path, "/")
    IN  IF joined = <<>> THEN <<"/">> ELSE joined

\* urllib.parse.urljoin(base, url)
urljoin(base, url) ==
    LET b == urlparse(base)
        u0 == urlparse(url)
        u == IF u0.scheme = <<>> THEN [u0 EXCEPT !.scheme = b.scheme] ELSE u0
    IN  IF url = <<>> THEN base
        ELSE IF u.scheme # b.scheme \/ u.scheme \notin uses_relative THEN url
        ELSE IF u.scheme \in uses_netloc /\ u.netloc # <<>> THEN urlunparse(u)
        ELSE IF u.path = <<>>
        THEN urlunparse([u EXCEPT !.netloc = b.netloc, !.path = b.path,
                                  !.query = IF u.query = <<>> THEN b.query
                                            ELSE u.query])
        ELSE urlunparse([u EXCEPT !.netloc = b.netloc,
                                  !.path = MergedPath(b.path, u.path)])

\* url_resolver.py:145-153
contains_suspicious_patterns(url) ==
    LET url_lower == lower(url)
    IN  \/ Contains(url_lower, <<".", ".", "/">>)
        \/ Contains(url_lower, <<".", ".", "\\">>)
        \/ Contains(url_lower, <<"%2e", "%2e">>)
        \/ Contains(url_lower, <<"%2f", "%2e", "%2e">>)
        \/ Contains(url_lower, <<"file:", "/", "/">>)
        \/ Contains(url_lower, <<"ftp:", "/", "/">>)
        \/ Contains(url_lower, <<"ldap:", "/", "/">>)
        \/ Contains(url_lower, <<"gopher:", "/", "/">>)

\* url_resolver.py:81-102
skip_schemes ==
    {"data:", "javascript:", "mailto:", "tel:", "ftp:", "file:", "blob:"}
should_skip_url(url) ==
    \/ url # <<>> /\ LowerPiece(url[1]) \in skip_schemes
    \/ StartsWith(url, <<"#">>)
    \/ strip(url) = <<>>
    \/ contains_suspicious_patterns(url)

\* url_resolver.py:104-123
is_valid_url_format(url) ==
    LET parsed == urlparse(url)
    IN  /\ parsed.scheme \in {<<"http:">>, <<"https:">>}
        /\ parsed.netloc # <<>>
        /\ TextLen(url) <= MaxUrlChars

\* url_resolver.py:125-143
PrivateHostPieces == {"localhost", "10.0.0.1"}
is_safe_resolved_url(url) ==
    LET netloc_lower == lower(urlparse(url).netloc)
    IN  /\ ~(netloc_lower # <<>> /\ netloc_lower[1] \in PrivateHostPieces)
        /\ urlparse(url).scheme # <<"file:">>

\* urllib.parse.parse_qs and urlencode over the parameters of the model: the
\* key of a parameter, and the parameter as urlencode writes it.  A
\* parameter with a blank value is dropped by parse_qs.
ParamPieces == {"a=1", "b=2", "c=", "q=/", "q=%2F"}
BlankParam(p) == p = "c="
ParamKeyRank(p) ==
    CASE p = "a=1" -> 1
      [] p = "b=2" -> 2
      [] p = "c=" -> 3
      [] OTHER -> 4
EncodedParam(p) == IF p = "q=/" THEN "q=%2F" ELSE p
\* parse_qs: the parameters between the '&', in order.
parse_qs(query) ==
    LET parts == split(query, "&")
        pairs == SelectSeq(parts,
                           LAMBDA t : Len(t) = 1 /\ t[1] \in ParamPieces
                                                 /\ ~BlankParam(t[1]))
    IN  [i \in DOMAIN pairs |-> pairs[i][1]]
\* sorted(query_params.items()) and urlencode(..., doseq=True)
RECURSIVE EncodeSorted(_, _)
EncodeSorted(params, rank) ==
    IF rank > 4 THEN <<>>
    ELSE LET mine == SelectSeq(params, LAMBDA p : ParamKeyRank(p) = rank)
         IN [i \in DOMAIN mine |-> <<EncodedParam(mine[i])>>]
                \o EncodeSorted(params, rank + 1)
urlencode_sorted(params) == Join(EncodeSorted(params, 1), "&")

\* url_resolver.py:159-172: the path without empty and '.' segments, with
\* the '..' segments resolved, and a trailing '/' kept.
normalized_path(path) ==
    LET path_parts == SelectSeq(split(path, "/"),
                                LAMBDA s : s # <<>> /\ s # <<".">>)
        kept == RemoveDotSegments(<<>>, path_parts)
        joined == <<"/">> \o Join(kept, "/")
    IN  IF path # <<>> /\ path[Len(path)] = "/"
           /\ joined[Len(joined)] # "/"
        THEN Append(joined, "/") ELSE joined

\* url_resolver.py:155-190
normalize_url(url) ==
    LET parsed == urlparse(url)
    IN  urlunparse([scheme |-> parsed.scheme,
                    netloc |-> lower(parsed.netloc),
                    path |-> normalized_path(parsed.path),
                    query |-> IF parsed.query # <<>>
                              THEN urlencode_sorted(parse_qs(parsed.query))
                              ELSE <<>>,
                    fragment |-> <<>>])

\* resolve_url returns None.
Rejected == <<>>
\* current_page_url is None.
NoPage == <<>>
\* url_resolver.py:16  self.base_url, the root page.
BaseUrlText == <<"https:", "/", "/", "ex.test", "/">>

\* url_resolver.py:27-79
resolve_url(url, current_page) ==
    LET stripped == strip(url)
        base_for_resolution ==
            IF current_page # NoPage THEN current_page ELSE BaseUrlText
        with_scheme ==
            IF StartsWith(stripped, <<"/", "/">>)
            THEN urlparse(base_for_resolution).scheme \o stripped
            ELSE stripped
    IN  IF stripped = <<>> THEN Rejected
        ELSE IF should_skip_url(stripped) THEN Rejected
        ELSE IF ~is_valid_url_format(with_scheme) THEN Rejected
        ELSE LET resolved == urljoin(base_for_resolution, with_scheme)
             IN IF ~is_safe_resolved_url(resolved) THEN Rejected
                ELSE normalize_url(
                         urlunparse([urlparse(resolved)
                                       EXCEPT !.fragment = <<>>]))

\* The references handed to resolve_url: an optional scheme and host, a
\* path, an optional blank, query and fragment.
RefPrefixes ==
    {<<>>, <<Space>>, <<"http:", "/", "/", "ex.test">>,
     <<"HTTPS:", "/", "/", "CDN.Test">>, <<"/", "/", "cdn.test">>,
     <<"http:", "/", "/", "localhost">>, <<"data:">>,
     <<"ftp:", "/", "/", "ex.test">>, <<"http:">>}
RefPathPieces == {"/", ".", "a"}
RefPaths ==
    UNION {[1..n -> RefPathPieces] : n \in 0..MaxRefPath}
        \cup {<<"/", LongSegment>>, <<"/", "%2e", "%2e", "/", "a">>}
RefBlanks == {<<>>, <<Space>>}
RefQueries ==
    {<<>>, <<"?", "b=2", "&", "a=1">>, <<"?", "c=">>, <<"?", "q=/">>}
RefFragments == {<<>>, <<"#", "f">>}
Refs ==
    {p \o path \o blank \o query \o fragment :
        p \in RefPrefixes, path \in RefPaths, blank \in RefBlanks,
        query \in RefQueries, fragment \in RefFragments}
\* The pages a reference is found on: none given, or a page of the site.
Pages == {NoPage, <<"http:", "/", "/", "ex.test", "/", "dir", "/", "a">>}

ResolveInit ==
    /\ ref_url \in Refs
    /\ current_page_url \in Pages
    /\ resolve_pc = "ready"
    /\ resolved_url = Rejected
    /\ resolved_again = Rejected

ResolveIdle ==
    /\ ref_url = <<>>
    /\ current_page_url = NoPage
    /\ resolve_pc = "ready"
    /\ resolved_url = Rejected
    /\ resolved_again = Rejected

\* One call of resolve_url(url, current_page_url).
ResolveUrl ==
    /\ resolve_pc = "ready"
    /\ resolved_url' = resolve_url(ref_url, current_page_url)
    /\ resolve_pc' = "returned"
    /\ UNCHANGED <<otherThanResolve, ref_url,
                   current_page_url, resolved_again>>

\* resolve_url is called with the URL it returned, found on any page.
ResolveAgain(page) ==
    /\ resolve_pc = "returned"
    /\ resolved_url # Rejected
    /\ resolved_again' = resolve_url(resolved_url, page)
    /\ resolve_pc' = "again"
    /\ UNCHANGED <<otherThanResolve, ref_url,
                   current_page_url, resolved_url>>

(***************************************************************************)
(* URLRewriter: rewrite_css_file, rewrite_html_file and what they call     *)
(* (url_rewriter.py:55-298).  A file is a text; its url(...) occurrence is *)
(* given by its parts, which are what the pattern of _rewrite_css_content  *)
(* matches:  url \s* ( \s* ["']? ([^"')]+) ["']? \s* )  with IGNORECASE.   *)
(***************************************************************************)
DoubleQuote == "\""
SingleQuote == "'"
\* The deepest directory of a rewritten file, in levels under output_dir.
MaxDirDepth == 1

\* The references written in the files: a relative one, an absolute one
\* and a data: URL.
FileRefs ==
    {<<"a">>, <<"https:", "/", "/", "ex.test", "/", "a">>, <<"data:">>}
\* The ways a url(...) is written: the letter case of 'url', a blank before
\* the parenthesis, a blank after it, the quote, and a blank before the
\* closing parenthesis.
UrlForms ==
    [fn : {"url", "URL"}, gap : BOOLEAN, lead : BOOLEAN,
     quote : {"", DoubleQuote, SingleQuote}, ref : FileRefs, trail : BOOLEAN]
Blank(b) == IF b THEN <<Space>> ELSE <<>>
Quote(q) == IF q = "" THEN <<>> ELSE <<q>>
\* match.group(0): the url(...) as it is written.
MatchText(f) ==
    <<f.fn>> \o Blank(f.gap) \o <<"(">> \o Blank(f.lead) \o Quote(f.quote)
        \o f.ref \o Quote(f.quote) \o Blank(f.trail) \o <<")">>
\* match.group(1): [^"')]+ takes the reference and, when no quote closes
\* it, the blank that follows it.
MatchGroup1(f) == f.ref \o (IF f.quote = "" THEN Blank(f.trail) ELSE <<>>)
\* str.strip('\'"')
RECURSIVE StripQuotes(_)
StripQuotes(text) ==
    IF text # <<>> /\ text[1] \in {DoubleQuote, SingleQuote}
    THEN StripQuotes(Tail(text))
    ELSE IF text # <<>> /\ text[Len(text)] \in {DoubleQuote, SingleQuote}
    THEN StripQuotes(SubSeq(text, 1, Len(text) - 1))
    ELSE text

\* The canonical URLs that may be in url_mapping, and the local path each
\* one is mapped to (url_rewriter.py:39-48).
MappedUrls == {<<"https:", "/", "/", "ex.test", "/", "a">>}
MappedPath(url) == urlparse(url).netloc \o urlparse(url).path

\* url_rewriter.py:196-206  _calculate_relative_path
RECURSIVE calculate_relative_path(_, _)
calculate_relative_path(levels_up, to_path) ==
    IF levels_up = 0 THEN to_path
    ELSE <<".", ".", "/">> \o calculate_relative_path(levels_up - 1, to_path)

\* url_rewriter.py:180-191: the local path of a resolved URL that is in the
\* mapping, relative to the directory of the file; the reference as it is
\* otherwise.
LocalReference(url, canonical, mapping, levels_up) ==
    IF canonical # Rejected /\ canonical \in mapping
    THEN IF levels_up = 0 THEN MappedPath(canonical)
         ELSE calculate_relative_path(levels_up, MappedPath(canonical))
    ELSE url

\* url_rewriter.py:165-194  _rewrite_single_url
rewrite_single_url(url, mapping, levels_up) ==
    IF \/ url = <<>>
       \/ StartsWith(url, <<"#">>)
       \/ StartsWith(url, <<"data:">>)
       \/ StartsWith(url, <<"javascript:">>)
    THEN url
    ELSE LocalReference(url, resolve_url(url, NoPage), mapping, levels_up)

\* url_rewriter.py:243-253  replace_url: the url(...) is written anew, with
\* the quote of the original when the match starts with url(" or url('.
Replacement(f, new_url) ==
    IF StartsWith(MatchText(f), <<"url", "(", DoubleQuote>>)
    THEN <<"url", "(", DoubleQuote>> \o new_url \o <<DoubleQuote, ")">>
    ELSE IF StartsWith(MatchText(f), <<"url", "(", SingleQuote>>)
    THEN <<"url", "(", SingleQuote>> \o new_url \o <<SingleQuote, ")">>
    ELSE <<"url", "(">> \o new_url \o <<")">>
\* What _rewrite_single_url returns for each reference of a file.
RewrittenReferences(refs, mapping, levels_up) ==
    [url \in refs |-> rewrite_single_url(url, mapping, levels_up)]
replace_url(f, rewritten) ==
    Replacement(f, rewritten[StripQuotes(MatchGroup1(f))])

\* The text of a stylesheet with one url(...), and of a markup file with
\* one element that has a src attribute and a style attribute.
CssText(css) == <<"body{background:">> \o css \o <<"}">>
HtmlText(src, style) ==
    <<"<img src=">> \o src \o <<" style=">> \o style \o <<">">>
FileText(kind, src, css) ==
    IF kind = "css" THEN CssText(css) ELSE HtmlText(src, css)

RewriteInit ==
    /\ file_kind \in {"css", "html"}
    /\ url_form \in UrlForms
    /\ src_attr \in FileRefs
    /\ mapped_urls \in SUBSET MappedUrls
    /\ page_levels \in 0..MaxDirDepth
    /\ file_content = FileText(file_kind, src_attr, MatchText(url_form))
    /\ rewrite_pc = "ready"
    /\ changes_made = FALSE

RewriteIdle ==
    /\ file_kind = "css"
    /\ url_form = [fn |-> "url", gap |-> FALSE, lead |-> FALSE, quote |-> "",
                   ref |-> <<"a">>, trail |-> FALSE]
    /\ src_attr = <<"a">>
    /\ mapped_urls = {}
    /\ page_levels = 0
    /\ file_content = FileText(file_kind, src_attr, MatchText(url_form))
    /\ rewrite_pc = "ready"
    /\ changes_made = FALSE

\* url_rewriter.py:260-298  rewrite_css_file: the content is rewritten by
\* _rewrite_css_content (re.sub with replace_url) and written back when it
\* differs.
RewriteCssFile ==
    /\ rewrite_pc = "ready"
    /\ file_kind = "css"
    /\ \E rewritten \in
              {RewrittenReferences({StripQuotes(MatchGroup1(url_form))},
                                   mapped_urls, page_levels)} :
           LET new_content == CssText(replace_url(url_form, rewritten))
           IN  /\ changes_made' = (new_content # file_content)
               /\ file_content' = new_content
    /\ rewrite_pc' = "returned"
    /\ UNCHANGED <<otherThanRewrite, file_kind,
                   url_form, src_attr, mapped_urls, page_levels>>

\* url_rewriter.py:55-107  rewrite_html_file: the attributes
\* (_rewrite_html_attributes, lines 109-131) and the inline styles
\* (_rewrite_inline_styles, lines 208-222) are rewritten; the document is
\* written back when one of them changed.
RewriteHtmlFile ==
    /\ rewrite_pc = "ready"
    /\ file_kind = "html"
    /\ \E rewritten \in
              {RewrittenReferences({src_attr,
                                    StripQuotes(MatchGroup1(url_form))},
                                   mapped_urls, page_levels)} :
           LET new_value == rewritten[src_attr]
               new_style == replace_url(url_form, rewritten)
               changed ==
                   new_value # src_attr \/ new_style # MatchText(url_form)
           IN  /\ changes_made' = changed
               /\ file_content' =
                      IF changed THEN HtmlText(new_value, new_style)
                      ELSE file_content
    /\ rewrite_pc' = "returned"
    /\ UNCHANGED <<otherThanRewrite, file_kind,
                   url_form, src_attr, mapped_urls, page_levels>>

(***************************************************************************)
(* DownloadManager._download_single_url (download_manager.py:195-352):     *)
(* one fetch, its attempts, and the file it writes at the local path.      *)
(***************************************************************************)
\* The largest config.max_retries a fetch is configured with.
MaxRetries == 3
\* The largest config.retry_delay, in seconds.
MaxRetryDelay == 2
\* The bytes of one chunk of a body, and the most chunks a body has.
ChunkBytes == 2048
MaxChunks == 3
\* The Content-Length a response declares, when it declares one.
DeclaredBytes == 4096
\* download_manager.py:321  abs(downloaded_size - file_size) > 1024
Tolerance == 1024

\* download_manager.py:230  file_size = None: no Content-Length header
NoLength == -1
\* download_manager.py:207  local_path.exists() is false
Absent == -1
DeclaredLengths == {NoLength, DeclaredBytes}
Statuses == {200, 403, 404, 429, 500}
\* No response has arrived in the attempt.
NoResponse == [status |-> 0, length |-> NoLength, disk_ok |-> TRUE]

\* The shape of a URL as lines 241-255 look at it: whether it has a query
\* ('?' in url) and whether it ends with '/'.
UrlShapes == {"plain", "query", "dir", "dir_query"}
\* The URLs a fetch may request: the one it is called with and its
\* alternates.
FetchUrls == UrlShapes \cup {"index"}
HasQuery(u) == u \in {"query", "dir_query"}
EndsWithSlash(u) == u = "dir"
\* download_manager.py:247  url.split('?')[0]
WithoutQuery(u) == IF u = "dir_query" THEN "dir" ELSE "plain"
\* download_manager.py:253  url + 'index.html'
WithIndex(u) == "index"

Abs(n) == IF n < 0 THEN 0 - n ELSE n

FetchInit ==
    /\ fetch_url \in UrlShapes
    /\ allowed \in BOOLEAN
    /\ overwrite_existing \in BOOLEAN
    /\ max_retries \in 0..MaxRetries
    /\ retry_delay \in 1..MaxRetryDelay
    /\ fetch_pc = "attempt"
    /\ attempt = 0
    /\ file_on_disk \in {Absent, 0, ChunkBytes}
    /\ called_url = fetch_url
    /\ file_at_call = file_on_disk
    /\ requests = [u \in FetchUrls |-> 0]
    /\ response = NoResponse
    /\ delays = <<>>
    /\ file_size = NoLength
    /\ downloaded_size = 0
    /\ fetch_result = "none"
    /\ fetch_error = ""

FetchIdle ==
    /\ fetch_url = "plain"
    /\ allowed = TRUE
    /\ overwrite_existing = FALSE
    /\ max_retries = 0
    /\ retry_delay = 1
    /\ fetch_pc = "attempt"
    /\ attempt = 0
    /\ file_on_disk = Absent
    /\ called_url = fetch_url
    /\ file_at_call = file_on_disk
    /\ requests = [u \in FetchUrls |-> 0]
    /\ response = NoResponse
    /\ delays = <<>>
    /\ file_size = NoLength
    /\ downloaded_size = 0
    /\ fetch_result = "none"
    /\ fetch_error = ""

\* return DownloadResult(success = True, ...)
ReturnSuccess ==
    /\ fetch_result' = "success"
    /\ fetch_error' = ""
    /\ fetch_pc' = "done"
    /\ UNCHANGED <<attempt, delays>>

\* return DownloadResult(success = False, error = err)
ReturnFailure(err) ==
    /\ fetch_result' = "failed"
    /\ fetch_error' = err
    /\ fetch_pc' = "done"
    /\ UNCHANGED <<attempt, delays>>

\* A retry that is granted once more than config.max_retries allows.
RetryOnceMore(err) ==
    IF attempt <= max_retries
    THEN /\ delays' = Append(delays, retry_delay * (attempt + 1))
         /\ attempt' = attempt + 1
         /\ fetch_pc' = "attempt"
         /\ UNCHANGED <<fetch_result, fetch_error>>
    ELSE ReturnFailure(err)

\* `if attempt < max_retries: sleep; continue` and else the failed result
\* (download_manager.py:258-261, 314-318, 323-327, 339-342, 346-350).
RetryOrFail(err) ==
    IF attempt < max_retries
    THEN /\ delays' = Append(delays, retry_delay * (attempt + 1))
         /\ attempt' = attempt + 1
         /\ fetch_pc' = "attempt"
         /\ UNCHANGED <<fetch_result, fetch_error>>
    ELSE ReturnFailure(err)

\* Any file at the local path is taken, an empty one too.
AnyExistingFileAccepted ==
    file_on_disk # Absent /\ ~overwrite_existing

\* download_manager.py:207-209  the file at the local path exists, is not
\* to be overwritten and is not empty.
ExistingFileAccepted ==
    file_on_disk # Absent /\ ~overwrite_existing /\ file_on_disk > 0

\* download_manager.py:198-218: an attempt begins; a file already at the
\* local path ends the fetch with a success.
AttemptBegin ==
    /\ fetch_pc = "attempt"
    /\ IF ExistingFileAccepted
       THEN ReturnSuccess /\ UNCHANGED requests
       ELSE \* line 226: session.get(url, ...)
            /\ fetch_pc' = "request"
            /\ requests' = [requests EXCEPT ![fetch_url] = @ + 1]
            /\ UNCHANGED <<attempt, delays, fetch_result, fetch_error>>
    /\ response' = NoResponse
    /\ UNCHANGED <<otherThanFetch,
                   fetch_url, allowed, called_url, file_at_call, retry_delay,
                   overwrite_existing, max_retries, file_on_disk, file_size,
                   downloaded_size>>

\* download_manager.py:220-295: the response arrives with its status and
\* Content-Length; the filter, the status and the disk guard are looked at
\* and the file is opened for writing, which empties it.
Respond(status, length, disk_ok) ==
    /\ fetch_pc = "request"
    /\ IF ~allowed
       THEN \* lines 232-237
            /\ ReturnFailure("File filtered by configuration")
            /\ file_size' = length
            /\ UNCHANGED <<fetch_url, file_on_disk, downloaded_size>>
       ELSE IF status >= 400
       THEN IF status = 404 /\ HasQuery(fetch_url) /\ attempt = 0
            THEN \* lines 245-249: the fetch starts over without the query,
                 \* for another local path
                 /\ fetch_url' = WithoutQuery(fetch_url)
                 /\ attempt' = 0
                 /\ fetch_pc' = "attempt"
                 /\ file_on_disk' = Absent
                 /\ file_size' = NoLength
                 /\ delays' = <<>>
                 /\ UNCHANGED <<downloaded_size, fetch_result, fetch_error>>
            ELSE IF status = 404 /\ EndsWithSlash(fetch_url) /\ attempt = 1
            THEN \* lines 251-255: the fetch starts over for url/index.html,
                 \* which has the local path of url
                 /\ fetch_url' = WithIndex(fetch_url)
                 /\ attempt' = 0
                 /\ fetch_pc' = "attempt"
                 /\ file_size' = NoLength
                 /\ delays' = <<>>
                 /\ UNCHANGED <<file_on_disk, downloaded_size, fetch_result,
                                fetch_error>>
            ELSE \* lines 257-261
                 /\ RetryOrFail("HTTP error")
                 /\ file_size' = length
                 /\ UNCHANGED <<fetch_url, file_on_disk, downloaded_size>>
       ELSE IF length # NoLength /\ ~disk_ok
       THEN \* lines 279-284 (a declared length of 100 MB, lines 270-277,
            \* is beyond the lengths of the model)
            /\ ReturnFailure("Insufficient disk space")
            /\ file_size' = length
            /\ UNCHANGED <<fetch_url, file_on_disk, downloaded_size>>
       ELSE \* lines 287-295: aiofiles.open(local_path, 'wb')
            /\ file_size' = length
            /\ downloaded_size' = 0
            /\ file_on_disk' = 0
            /\ fetch_pc' = "streaming"
            /\ UNCHANGED <<fetch_url, attempt, delays, fetch_result,
                           fetch_error>>
    /\ response' = [status |-> status, length |-> length,
                    disk_ok |-> disk_ok]
    /\ UNCHANGED <<otherThanFetch,
                   allowed, overwrite_existing, called_url, file_at_call,
                   retry_delay, requests, max_retries>>

\* download_manager.py:296-309: one chunk of the body is written.
StreamChunk ==
    /\ fetch_pc = "streaming"
    /\ downloaded_size < MaxChunks * ChunkBytes
    /\ downloaded_size' = downloaded_size + ChunkBytes
    /\ file_on_disk' = file_on_disk + ChunkBytes
    /\ UNCHANGED <<otherThanFetch,
                   fetch_url, allowed, called_url, file_at_call, retry_delay,
                   requests, response, delays,
                   overwrite_existing, max_retries, fetch_pc, attempt,
                   file_size, fetch_result, fetch_error>>

\* download_manager.py:311-335: the body has ended; an empty body and a
\* size that differs from the declared one by more than the tolerance are
\* retried, anything else is a success.
StreamEnd ==
    /\ fetch_pc = "streaming"
    /\ IF downloaded_size = 0
       THEN RetryOrFail("Downloaded file is empty")
       ELSE IF file_size # NoLength /\ file_size # 0
                 /\ Abs(downloaded_size - file_size) > Tolerance
            THEN RetryOrFail("Size mismatch")
            ELSE ReturnSuccess
    /\ UNCHANGED <<otherThanFetch,
                   fetch_url, allowed, called_url, file_at_call, retry_delay,
                   requests, response,
                   overwrite_existing, max_retries, file_on_disk, file_size,
                   downloaded_size>>

\* download_manager.py:337-350: the request or the body times out, or
\* raises another exception (the connection is reset, the payload is cut).
AttemptRaises ==
    /\ fetch_pc \in {"request", "streaming"}
    /\ \E err \in {"Download timeout", "Download error"} : RetryOrFail(err)
    /\ UNCHANGED <<otherThanFetch,
                   fetch_url, allowed, called_url, file_at_call, retry_delay,
                   requests, response,
                   overwrite_existing, max_retries, file_on_disk, file_size,
                   downloaded_size>>

(***************************************************************************)
(* RateLimiter (download_manager.py:564-598), called by the concurrent     *)
(* tasks of one event loop.  Time is counted in ticks; the code between    *)
(* two awaits runs without interruption.                                   *)
(***************************************************************************)
\* The tasks that call the limiter, the ticks of one second, the last tick
\* of a run, and the largest max_requests_per_second and burst_size.
NumTasks == 4
TicksPerSecond == 2
MaxTime == 4
MaxRps == 2
MaxBurst == 1
LimiterTasks == 1..NumTasks

RateInit ==
    /\ max_rps \in 1..MaxRps
    /\ burst_size \in 1..MaxBurst
    /\ clock = 0
    /\ request_times = <<>>
    /\ burst_count = 0
    /\ last_burst_reset = 0
    /\ wake_at = [t \in LimiterTasks |-> Absent]
    /\ admitted = [s \in 0..MaxTime |-> 0]

RateIdle ==
    /\ max_rps = 1
    /\ burst_size = 1
    /\ clock = 0
    /\ request_times = <<>>
    /\ burst_count = 0
    /\ last_burst_reset = 0
    /\ wake_at = [t \in LimiterTasks |-> Absent]
    /\ admitted = [s \in 0..MaxTime |-> 0]

\* download_manager.py:584  [t for t in request_times if now - t < 1.0]
RECURSIVE RecentTimes(_, _)
RecentTimes(times, now) ==
    IF times = <<>> THEN <<>>
    ELSE IF now - Head(times) < TicksPerSecond
    THEN <<Head(times)>> \o RecentTimes(Tail(times), now)
    ELSE RecentTimes(Tail(times), now)

\* wait_if_needed returns: the call is admitted at the current time.
Admit == admitted' = [admitted EXCEPT ![clock] = @ + 1]

\* download_manager.py:576-596: a task calls wait_if_needed; the call
\* runs to its return or to its asyncio.sleep.
WaitIfNeeded(t) ==
    /\ wake_at[t] = Absent
    /\ LET reset == clock - last_burst_reset >= TicksPerSecond
           count == IF reset THEN 0 ELSE burst_count
           recent == RecentTimes(request_times, clock)
       IN  /\ last_burst_reset' = IF reset THEN clock ELSE last_burst_reset
           /\ IF count < burst_size
              THEN \* lines 588-591
                   /\ burst_count' = count + 1
                   /\ request_times' = Append(recent, clock)
                   /\ Admit
                   /\ UNCHANGED wake_at
              ELSE IF Len(recent) >= max_rps
                        /\ TicksPerSecond - (clock - recent[1]) > 0
              THEN \* lines 594-597: asyncio.sleep(sleep_time)
                   /\ burst_count' = count
                   /\ request_times' = recent
                   /\ wake_at' = [wake_at EXCEPT
                                    ![t] = recent[1] + TicksPerSecond]
                   /\ UNCHANGED admitted
              ELSE \* line 598
                   /\ burst_count' = count
                   /\ request_times' = Append(recent, clock)
                   /\ Admit
                   /\ UNCHANGED wake_at
    /\ UNCHANGED <<otherThanRate, max_rps, burst_size, clock>>

\* download_manager.py:598: the sleep is over; the time is appended and the
\* call returns.
WakeUp(t) ==
    /\ wake_at[t] # Absent
    /\ wake_at[t] <= clock
    /\ request_times' = Append(request_times, clock)
    /\ wake_at' = [wake_at EXCEPT ![t] = Absent]
    /\ Admit
    /\ UNCHANGED <<otherThanRate, max_rps, burst_size, clock, burst_count,
                   last_burst_reset>>

\* Time passes; a task whose sleep is over runs before it passes further.
Tick ==
    /\ clock < MaxTime
    /\ \A t \in LimiterTasks : wake_at[t] = Absent \/ wake_at[t] > clock
    /\ clock' = clock + 1
    /\ UNCHANGED <<otherThanRate, max_rps, burst_size, request_times,
                   burst_count, last_burst_reset, wake_at, admitted>>

(***************************************************************************)
(* The closure loop of _process_css_files_recursively                      *)
(* (sitecloner.py:366-491) by the number of its stylesheets: how many are  *)
(* downloaded and not yet processed, selected, processed and mined.        *)
(***************************************************************************)
\* The numbers of stylesheets a download may add.
SomeStylesheets == 200
ManyStylesheets == 600
StylesheetCounts == {0, 1, SomeStylesheets, ManyStylesheets}

LimitInit ==
    /\ unprocessed_css \in StylesheetCounts
    /\ processed_css = 0
    /\ selected_css = 0
    /\ mined_css = 0
    /\ css_iteration = 0
    /\ limit_pc = "head"

LimitIdle ==
    /\ unprocessed_css = 0
    /\ processed_css = 0
    /\ selected_css = 0
    /\ mined_css = 0
    /\ css_iteration = 0
    /\ limit_pc = "head"

\* sitecloner.py:382-395: every downloaded stylesheet that is not yet
\* processed is adopted unless max_total_css_files stylesheets have been
\* processed; processed_css_files does not change during the scan.
SelectedCount(processed, unprocessed) ==
    IF processed >= max_total_css_files THEN 0 ELSE unprocessed

\* sitecloner.py:378-399: the loop head; an iteration selects its work.
LimitHead ==
    /\ limit_pc = "head"
    /\ IF css_iteration < max_iterations
       THEN /\ css_iteration' = css_iteration + 1
            /\ selected_css' = SelectedCount(processed_css, unprocessed_css)
            /\ limit_pc' = IF selected_css' = 0 THEN "done" ELSE "mine"
       ELSE /\ limit_pc' = "done"
            /\ UNCHANGED <<css_iteration, selected_css>>
    /\ UNCHANGED <<otherThanLimit, unprocessed_css, processed_css, mined_css>>

\* sitecloner.py:403-449: every selected stylesheet is marked processed and
\* mined.
LimitMine ==
    /\ limit_pc = "mine"
    /\ processed_css' = processed_css + selected_css
    /\ mined_css' = mined_css + selected_css
    /\ unprocessed_css' = unprocessed_css - selected_css
    /\ limit_pc' = "download"
    /\ UNCHANGED <<otherThanLimit, selected_css, css_iteration>>

\* sitecloner.py:451-486: with no new asset the loop ends; otherwise the new
\* assets are downloaded, n stylesheets among them.
LimitDownload(any_new, n) ==
    /\ limit_pc = "download"
    /\ IF any_new
       THEN /\ unprocessed_css' = unprocessed_css + n
            /\ limit_pc' = "head"
       ELSE /\ limit_pc' = "done"
            /\ UNCHANGED unprocessed_css
    /\ UNCHANGED <<otherThanLimit, processed_css, selected_css, mined_css,
                   css_iteration>>

(***************************************************************************)
(* A run of clone_site on a small site (sitecloner.py:104-175): the root   *)
(* page https://ex.test/ links style.css, shows img/logo.png and preloads  *)
(* font.woff2; style.css imports fonts.css and has bg.png as background.   *)
(* Every fetch succeeds.  Each reference is written in one of three ways.  *)
(***************************************************************************)
RootPage == BaseUrlText
RefNames == {"style", "fonts", "bg", "logo", "font"}
\* The path of each resource below the root of the site.
RefPath(n) ==
    CASE n = "style" -> <<"style", ".", "css">>
      [] n = "fonts" -> <<"fonts", ".", "css">>
      [] n = "bg" -> <<"bg", ".", "png">>
      [] n = "logo" -> <<"img", "/", "logo", ".", "png">>
      [] n = "font" -> <<"font", ".", "woff2">>
RefForms == {"relative", "rooted", "absolute"}
\* The reference as it is written in the root page or in style.css, both
\* of which are in the root directory of the site.
Written(n, form) ==
    CASE form = "relative" -> RefPath(n)
      [] form = "rooted" -> <<"/">> \o RefPath(n)
      [] form = "absolute" -> RootPage \o RefPath(n)
\* The references of the root page and those of style.css.
RootRefs == {"style", "logo", "font"}
StyleRefs == {"fonts", "bg"}
StyleUrl == RootPage \o RefPath("style")

ExampleInit ==
    /\ ref_forms \in [RefNames -> RefForms]
    /\ example_pc = "discover"
    /\ found_urls = {}
    /\ mapping_keys = {}
    /\ img_src = Written("logo", ref_forms["logo"])

ExampleIdle ==
    /\ ref_forms = [n \in RefNames |-> "absolute"]
    /\ example_pc = "discover"
    /\ found_urls = {}
    /\ mapping_keys = {}
    /\ img_src = Written("logo", ref_forms["logo"])

\* asset_discoverer.py: every reference found in a document is handed to
\* resolve_url with the URL of the document, and kept when resolve_url
\* returns a URL (e.g. lines 144-149, 380-384).
ResolvedRefs(names, forms, page) ==
    {resolve_url(Written(n, forms[n]), page) : n \in names} \ {Rejected}

\* sitecloner.py:104-116 (the root page) and 403-449 (style.css, when it
\* has been downloaded): the references of a document are discovered.
ExampleDiscover ==
    /\ example_pc \in {"discover", "mine"}
    /\ found_urls' = found_urls \cup
          (IF example_pc = "discover"
           THEN ResolvedRefs(RootRefs, ref_forms, RootPage)
           ELSE IF StyleUrl \in mapping_keys
           THEN ResolvedRefs(StyleRefs, ref_forms, StyleUrl)
           ELSE {})
    /\ example_pc' = IF example_pc = "discover" THEN "download"
                     ELSE "download_new"
    /\ UNCHANGED <<otherThanExample, ref_forms, mapping_keys, img_src>>

\* sitecloner.py:118-156, 476-486: the discovered URLs are downloaded; each
\* fetch succeeds and enters the URL mapping.
ExampleDownload ==
    /\ example_pc \in {"download", "download_new"}
    /\ mapping_keys' = mapping_keys \cup found_urls
    /\ example_pc' = IF example_pc = "download" THEN "mine" ELSE "rewrite"
    /\ UNCHANGED <<otherThanExample, ref_forms, found_urls, img_src>>

\* sitecloner.py:173-175, url_rewriter.py:109-131: the src of the img of the
\* root page, which is saved as index.html in the output directory, is
\* rewritten.
ExampleRewrite ==
    /\ example_pc = "rewrite"
    /\ img_src' = rewrite_single_url(img_src, mapping_keys, 0)
    /\ example_pc' = "done"
    /\ UNCHANGED <<otherThanExample, ref_forms, found_urls, mapping_keys>>

(***************************************************************************)
(* The closure loop (sitecloner.py:366-491) on a site whose stylesheets    *)
(* form one chain of imports: the root page links stylesheet 0, and        *)
(* stylesheet d imports stylesheet d + 1 while d < chain_length.  A        *)
(* stylesheet is named by its position, which is the length of the only    *)
(* import chain that leads to it.                                          *)
(***************************************************************************)
MaxChain == 12
Sheets == 0..MaxChain

\* What discover_assets_in_css returns for stylesheet d: the next one.
SheetRefs(d) == IF d < chain_length THEN {d + 1} ELSE {}

\* Phase 2 (sitecloner.py:135-155) has downloaded stylesheet 0, mined it
\* with _process_css_files and downloaded the stylesheet it imports.
ChainInit ==
    /\ chain_length \in 0..MaxChain
    /\ chain_pc = "head"
    /\ chain_iteration = 0
    /\ \E second \in {"ok", "failed"} :
          chain_results =
              [d \in Sheets |->
                  IF d = 0 THEN "ok"
                  ELSE IF d = 1 /\ chain_length >= 1 THEN second
                  ELSE "none"]
    /\ chain_processed = {}
    /\ chain_todo = {}
    /\ chain_new_assets = {}
    /\ chain_import_graph = [d \in Sheets |-> {}]
    /\ chain_depth_tracker = [d \in Sheets |-> Absent]
    /\ chain_handed = {}

ChainIdle ==
    /\ chain_length = 0
    /\ chain_pc = "head"
    /\ chain_iteration = 0
    /\ chain_results = [d \in Sheets |-> "none"]
    /\ chain_processed = {}
    /\ chain_todo = {}
    /\ chain_new_assets = {}
    /\ chain_import_graph = [d \in Sheets |-> {}]
    /\ chain_depth_tracker = [d \in Sheets |-> Absent]
    /\ chain_handed = {}

\* sitecloner.py:435, 459  css_depth_tracker.get(url, 0)
DepthOf(depths, d) == IF depths[d] = Absent THEN 0 ELSE depths[d]

\* sitecloner.py:434-440 for one mined stylesheet: each imported stylesheet
\* gets the importer's depth plus one unless that exceeds max_css_depth.
SheetDepths(depths, d) ==
    [s \in Sheets |->
        IF s \in SheetRefs(d) /\ DepthOf(depths, d) + 1 <= max_css_depth
        THEN DepthOf(depths, d) + 1 ELSE depths[s]]

\* sitecloner.py:403-449 over css_files_to_process, in the order of
\* download_results: the depths recorded after the stylesheets of todo are
\* mined.  The bookkeeping runs only under the 'css' key (line 424).
RECURSIVE MinedDepths(_, _)
MinedDepths(depths, todo) ==
    IF todo = {} \/ "css" \notin CssAssetKeys THEN depths
    ELSE LET d == CHOOSE s \in todo : \A o \in todo : s <= o
         IN  MinedDepths(SheetDepths(depths, d), todo \ {d})

\* sitecloner.py:426-427  css_import_graph[css_url] = imported_css_urls
MinedGraph(graph, todo) ==
    IF "css" \notin CssAssetKeys THEN graph
    ELSE [d \in Sheets |-> IF d \in todo THEN SheetRefs(d) ELSE graph[d]]

\* sitecloner.py:452-461: what of new_assets is handed to download_urls.
TrulyNewSheets(new, results, depths) ==
    LET already_discovered == {s \in new : results[s] = "ok"}
        depth_limited ==
            {s \in new \ already_discovered :
                DepthOf(depths, s) > max_css_depth}
    IN  (new \ already_discovered) \ depth_limited

\* sitecloner.py:378-399: the loop head selects the downloaded stylesheets
\* that are not processed yet.
ChainHead ==
    /\ chain_pc = "head"
    /\ IF chain_iteration < max_iterations
       THEN /\ chain_iteration' = chain_iteration + 1
            /\ chain_todo' = {d \in Sheets : chain_results[d] = "ok"
                                             /\ d \notin chain_processed}
            /\ chain_pc' = IF chain_todo' = {} THEN "done" ELSE "mine"
       ELSE /\ chain_pc' = "done"
            /\ UNCHANGED <<chain_iteration, chain_todo>>
    /\ chain_new_assets' = {}
    /\ UNCHANGED <<otherThanChain, chain_length, chain_results,
                   chain_processed, chain_import_graph, chain_depth_tracker,
                   chain_handed>>

\* sitecloner.py:403-463: the selected stylesheets are mined and the new
\* assets filtered; with none left the loop ends.
ChainMine ==
    /\ chain_pc = "mine"
    /\ chain_processed' = chain_processed \cup chain_todo
    /\ chain_import_graph' = MinedGraph(chain_import_graph, chain_todo)
    /\ chain_depth_tracker' = MinedDepths(chain_depth_tracker, chain_todo)
    /\ chain_new_assets' =
          TrulyNewSheets(UNION {SheetRefs(d) : d \in chain_todo},
                         chain_results, chain_depth_tracker')
    /\ chain_pc' = IF chain_new_assets' = {} THEN "done" ELSE "download"
    /\ UNCHANGED <<otherThanChain, chain_length, chain_iteration,
                   chain_results, chain_todo, chain_handed>>

\* sitecloner.py:474-486: the new assets are handed to download_urls and
\* the result of each is recorded.
ChainDownload(ok) ==
    /\ chain_pc = "download"
    /\ chain_handed' = chain_handed \cup chain_new_assets
    /\ chain_results' =
          [d \in Sheets |->
              IF d \in chain_new_assets
              THEN (IF ok THEN "ok" ELSE "failed") ELSE chain_results[d]]
    /\ chain_pc' = "head"
    /\ UNCHANGED <<otherThanChain, chain_length, chain_iteration,
                   chain_processed, chain_todo, chain_new_assets,
                   chain_import_graph, chain_depth_tracker>>

(***************************************************************************)
(* Phase 2 of clone_site (sitecloner.py:118-155) by numbers: the discovered*)
(* assets are downloaded in batches; save_state is called from the handler *)
(* of clone_site only (sitecloner.py:191-194).                             *)
(***************************************************************************)
MaxWorkers == 30
MaxAssets == 120
\* sitecloner.py:50
recovery_checkpoint_interval == 50

BatchesInit ==
    /\ assets_total \in {0, 1, MaxAssets \div 2, MaxAssets}
    /\ workers \in 1..MaxWorkers
    /\ batch_start = 0
    /\ completed = 0
    /\ completed_at_save = 0
    /\ checkpoints = 0
    /\ batches_pc = "loop"

BatchesIdle ==
    /\ assets_total = 0
    /\ workers = 1
    /\ batch_start = 0
    /\ completed = 0
    /\ completed_at_save = 0
    /\ checkpoints = 0
    /\ batches_pc = "loop"

\* sitecloner.py:132  batch_size = min(max_concurrent_downloads * 2, 50)
batch_size == IF workers * 2 < BatchCap THEN workers * 2 ELSE BatchCap

\* sitecloner.py:135-137: one batch is cut from asset_urls and download_urls
\* returns with every download of the batch completed.
BatchDownloaded ==
    /\ batches_pc = "loop"
    /\ batch_start < assets_total
    /\ completed' = completed +
          (IF batch_start + batch_size < assets_total
           THEN batch_size ELSE assets_total - batch_start)
    /\ batch_start' = batch_start + batch_size
    /\ UNCHANGED <<otherThanBatches, assets_total, workers, completed_at_save,
                   checkpoints, batches_pc>>

\* sitecloner.py:135: range(0, len(asset_urls), batch_size) is exhausted.
BatchesEnd ==
    /\ batches_pc = "loop"
    /\ batch_start >= assets_total
    /\ batches_pc' = "done"
    /\ UNCHANGED <<otherThanBatches, assets_total, workers, batch_start,
                   completed, completed_at_save, checkpoints>>

\* sitecloner.py:191-194: download_urls raises; the handler writes the
\* checkpoint and clone_site returns.
BatchRaises ==
    /\ batches_pc = "loop"
    /\ batch_start < assets_total
    /\ completed_at_save' = completed
    /\ checkpoints' = checkpoints + 1
    /\ batches_pc' = "returned"
    /\ UNCHANGED <<otherThanBatches, assets_total, workers, batch_start,
                   completed>>

(***************************************************************************)
(* CircuitBreaker (connection_pool.py:19-100), called by the coroutines of *)
(* one event loop.  A coroutine runs until it awaits something that is not *)
(* ready: the lock is never held across such a point, so acquiring it,     *)
(* _can_proceed, releasing it and entering func are one step, and so is    *)
(* the end of func with _on_success or _on_failure.                        *)
(***************************************************************************)
NumCallers == 2
MaxThreshold == 2
MaxTimeout == 2
MaxBreakerTime == 4
Callers == 1..NumCallers

BreakerInit ==
    /\ failure_threshold \in 1..MaxThreshold
    /\ recovery_timeout \in 1..MaxTimeout
    /\ success_threshold \in 1..MaxThreshold
    /\ breaker_state = "closed"
    /\ failure_count = 0
    /\ success_count = 0
    /\ last_failure_time = Absent
    /\ breaker_now = 0
    /\ call_pc = [t \in Callers |-> "idle"]

BreakerIdle ==
    /\ failure_threshold = 1
    /\ recovery_timeout = 1
    /\ success_threshold = 1
    /\ breaker_state = "closed"
    /\ failure_count = 0
    /\ success_count = 0
    /\ last_failure_time = Absent
    /\ breaker_now = 0
    /\ call_pc = [t \in Callers |-> "idle"]

\* A breaker that does not wait for the recovery timeout.
RecoveryAlwaysDue == TRUE

\* connection_pool.py:58-61: a failure is recorded and recovery_timeout has
\* passed since.
RecoveryDue ==
    /\ last_failure_time # Absent
    /\ breaker_now - last_failure_time >= recovery_timeout

\* _can_proceed (connection_pool.py:51-69): its return value.
can_proceed == breaker_state # "open" \/ RecoveryDue

\* call (connection_pool.py:37-44): a caller that is not inside call()
\* enters it; it raises "Circuit breaker is OPEN" or goes on into func.
Call(t) ==
    /\ call_pc[t] # "in_func"
    /\ IF can_proceed
       THEN /\ call_pc' = [call_pc EXCEPT ![t] = "in_func"]
            /\ breaker_state' =
                  IF breaker_state = "open" THEN "half_open"
                  ELSE breaker_state
       ELSE /\ call_pc' = [call_pc EXCEPT ![t] = "rejected"]
            /\ UNCHANGED breaker_state
    /\ UNCHANGED <<otherThanBreaker, failure_threshold, recovery_timeout,
                   success_threshold, failure_count, success_count,
                   last_failure_time, breaker_now>>

\* connection_pool.py:45-46, 71-84: func returns; _on_success.
FuncReturns(t) ==
    /\ call_pc[t] = "in_func"
    /\ call_pc' = [call_pc EXCEPT ![t] = "returned"]
    /\ CASE breaker_state = "half_open" ->
              IF success_count + 1 >= success_threshold
              THEN /\ breaker_state' = "closed"
                   /\ failure_count' = 0
                   /\ success_count' = 0
              ELSE /\ success_count' = success_count + 1
                   /\ UNCHANGED <<breaker_state, failure_count>>
         [] breaker_state = "closed" ->
              /\ failure_count' = 0
              /\ UNCHANGED <<breaker_state, success_count>>
         [] OTHER ->
              UNCHANGED <<breaker_state, failure_count, success_count>>
    /\ UNCHANGED <<otherThanBreaker, failure_threshold, recovery_timeout,
                   success_threshold, last_failure_time, breaker_now>>

\* connection_pool.py:48-50, 86-100: func raises; _on_failure.
FuncRaises(t) ==
    /\ call_pc[t] = "in_func"
    /\ call_pc' = [call_pc EXCEPT ![t] = "raised"]
    /\ failure_count' = failure_count + 1
    /\ last_failure_time' = breaker_now
    /\ CASE breaker_state = "closed" ->
              /\ breaker_state' =
                    IF failure_count + 1 >= failure_threshold
                    THEN "open" ELSE "closed"
              /\ UNCHANGED success_count
         [] breaker_state = "half_open" ->
              /\ breaker_state' = "open"
              /\ success_count' = 0
         [] OTHER -> UNCHANGED <<breaker_state, success_count>>
    /\ UNCHANGED <<otherThanBreaker, failure_threshold, recovery_timeout,
                   success_threshold, breaker_now>>

\* Time passes.
BreakerTick ==
    /\ breaker_now < MaxBreakerTime
    /\ breaker_now' = breaker_now + 1
    /\ UNCHANGED <<otherThanBreaker, failure_threshold, recovery_timeout,
                   success_threshold, breaker_state, failure_count,
                   success_count, last_failure_time, call_pc>>

\* The models of this part at rest.
LateIdle == ChainIdle /\ BatchesIdle /\ LoadIdle /\ BreakerIdle

(***************************************************************************)
(* The specifications.                                                     *)
(***************************************************************************)
Init ==
    ClonerInit /\ PathIdle /\ FetchIdle /\ ResolveIdle /\ RewriteIdle
        /\ RateIdle /\ LimitIdle /\ ExampleIdle /\ LateIdle

Next ==
    \/ FetchRoot
    \/ Discover
    \/ BatchBegin
    \/ BatchNext
    \/ BatchEnd
    \/ BatchRecord
    \/ BatchNewRecord
    \/ \E u \in AssetUrls : TaskStart(u)
    \/ \E u \in AssetUrls : TaskFinish(u)
    \/ DownloadReturn
    \/ ClosureBegin
    \/ ClosureHead
    \/ \E u \in AssetUrls : ClosureMine(u)
    \/ ClosureFilter
    \/ ClosureRecord
    \/ RetryBegin
    \/ RetryPass
    \/ RetryRecord
    \/ RetryDone
    \/ Rewrite
    \/ SaveMetadata
    \/ Summary
    \/ PhaseException

Spec == Init /\ [][Next]_vars

\* Every step of a run is eventually taken: the event loop resumes the
\* coroutine and its tasks, and every fetch ends (each attempt has a
\* timeout and the attempts are bounded).
FairSpec == Spec /\ WF_vars(Next)

\* A run of clone_site during which SIGINT or SIGTERM may be delivered.
NextShutdown == Next \/ SignalHandler
SpecShutdown == Init /\ [][NextShutdown]_vars

\* Runs with checkpoints: a scenario fixes what the servers and the disk
\* answer; the first process starts in an empty output directory through
\* main or through clone_site_with_recovery, and further processes may
\* follow on the same directory.
RecoveryOutcomes == {"ok", "HTTP 500: Internal Server Error"}
RecoverySites == {s \in Sites : s.page = {CssA, Tracker} /\ s.a # {}}
Scenarios ==
    [root : {"ok", "fail"}, disk : {"ok", "low"},
     outcome : [AssetUrls -> RecoveryOutcomes]]
InitRecovery ==
    /\ site \in RecoverySites
    /\ max_concurrent_downloads = 1
    /\ inputs \in Scenarios
    /\ ClonerConstructed
    /\ state_file = NoStateFile
    /\ recovery_pc \in {"main", "loop_head"}
    /\ pc = IF recovery_pc = "loop_head" THEN "not_called" ELSE "fetch_root"
    /\ recovery_attempt = 0
    /\ recovery_result = "none"
    /\ restarts = 0
    /\ executions = 0
    /\ successes = 0
    /\ PathIdle
    /\ FetchIdle
    /\ ResolveIdle
    /\ RewriteIdle
    /\ RateIdle
    /\ LimitIdle /\ ExampleIdle /\ LateIdle
NextRecovery ==
    \/ Next
    \/ RecoveryAttempt
    \/ RecoveryReturn
    \/ RecoveryInterrupted
    \/ RecoveryGiveUp
    \/ MainReturn
    \/ \E entry \in Entries : Restart(entry)
SpecRecovery == InitRecovery /\ [][NextRecovery]_vars

\* One call of clone_site_with_recovery in a new process.  The event loop
\* resumes it after each sleep and each call, and every run of clone_site
\* goes on as under FairSpec.
InitRecoveryCall == InitRecovery /\ recovery_pc = "loop_head"
NextRecoveryCall ==
    \/ Next
    \/ RecoveryAttempt
    \/ RecoveryReturn
    \/ RecoveryInterrupted
    \/ RecoveryGiveUp
FairSpecRecoveryCall ==
    InitRecoveryCall /\ [][NextRecoveryCall]_vars /\ WF_vars(NextRecoveryCall)

\* url_to_local_path applied to one URL of PathUrls.
InitPath ==
    ClonerIdle /\ PathInit /\ FetchIdle /\ ResolveIdle /\ RewriteIdle
        /\ RateIdle /\ LimitIdle /\ ExampleIdle /\ LateIdle
NextPath == MapUrl
SpecPath == InitPath /\ [][NextPath]_vars

\* One fetch by _download_single_url.
InitFetch ==
    ClonerIdle /\ PathIdle /\ FetchInit /\ ResolveIdle /\ RewriteIdle
        /\ RateIdle /\ LimitIdle /\ ExampleIdle /\ LateIdle
NextFetch ==
    \/ AttemptBegin
    \/ \E status \in Statuses, length \in DeclaredLengths, disk_ok \in BOOLEAN :
          Respond(status, length, disk_ok)
    \/ StreamChunk
    \/ StreamEnd
    \/ AttemptRaises
SpecFetch == InitFetch /\ [][NextFetch]_vars
\* The event loop resumes the fetch: the response, the next chunk, the end
\* of the body or the timeout of the attempt arrives.
FairSpecFetch == SpecFetch /\ WF_vars(NextFetch)

\* resolve_url applied to one reference of Refs, and then to its result.
InitResolve ==
    ClonerIdle /\ PathIdle /\ FetchIdle /\ ResolveInit /\ RewriteIdle
        /\ RateIdle /\ LimitIdle /\ ExampleIdle /\ LateIdle
NextResolve ==
    \/ ResolveUrl
    \/ \E page \in Pages : ResolveAgain(page)
SpecResolve == InitResolve /\ [][NextResolve]_vars

\* rewrite_css_file or rewrite_html_file applied to one saved file.
InitRewrite ==
    ClonerIdle /\ PathIdle /\ FetchIdle /\ ResolveIdle /\ RewriteInit
        /\ RateIdle /\ LimitIdle /\ ExampleIdle /\ LateIdle
NextRewrite == RewriteCssFile \/ RewriteHtmlFile
SpecRewrite == InitRewrite /\ [][NextRewrite]_vars

\* The tasks of one event loop calling RateLimiter.wait_if_needed.
InitRate ==
    ClonerIdle /\ PathIdle /\ FetchIdle /\ ResolveIdle /\ RewriteIdle
        /\ RateInit /\ LimitIdle /\ ExampleIdle /\ LateIdle
NextRate ==
    \/ \E t \in LimiterTasks : WaitIfNeeded(t)
    \/ \E t \in LimiterTasks : WakeUp(t)
    \/ Tick
SpecRate == InitRate /\ [][NextRate]_vars

\* One run of the closure loop, by numbers of stylesheets.
InitLimit ==
    ClonerIdle /\ PathIdle /\ FetchIdle /\ ResolveIdle /\ RewriteIdle
        /\ RateIdle /\ LimitInit /\ ExampleIdle /\ LateIdle
NextLimit ==
    \/ LimitHead
    \/ LimitMine
    \/ \E any_new \in BOOLEAN, n \in StylesheetCounts :
          LimitDownload(any_new, n)
SpecLimit == InitLimit /\ [][NextLimit]_vars

\* A run on the small site, for every way of writing its references.
InitExample ==
    ClonerIdle /\ PathIdle /\ FetchIdle /\ ResolveIdle /\ RewriteIdle
        /\ RateIdle /\ LimitIdle /\ ExampleInit /\ LateIdle
NextExample == ExampleDiscover \/ ExampleDownload \/ ExampleRewrite
SpecExample == InitExample /\ [][NextExample]_vars

\* The closure loop on one chain of imports.
InitChain ==
    ClonerIdle /\ PathIdle /\ FetchIdle /\ ResolveIdle /\ RewriteIdle
        /\ RateIdle /\ LimitIdle /\ ExampleIdle /\ ChainInit /\ BatchesIdle
        /\ LoadIdle /\ BreakerIdle
NextChain ==
    \/ ChainHead
    \/ ChainMine
    \/ \E ok \in BOOLEAN : ChainDownload(ok)
SpecChain == InitChain /\ [][NextChain]_vars

\* The batch loop of Phase 2, by numbers of assets.
InitBatches ==
    ClonerIdle /\ PathIdle /\ FetchIdle /\ ResolveIdle /\ RewriteIdle
        /\ RateIdle /\ LimitIdle /\ ExampleIdle /\ ChainIdle /\ BatchesInit
        /\ LoadIdle /\ BreakerIdle
NextBatches == BatchDownloaded \/ BatchesEnd \/ BatchRaises
SpecBatches == InitBatches /\ [][NextBatches]_vars

\* load_state called on a cloner with any fields, for any state file.
InitLoad ==
    LoadInit /\ PathIdle /\ FetchIdle /\ ResolveIdle /\ RewriteIdle
        /\ RateIdle /\ LimitIdle /\ ExampleIdle /\ ChainIdle /\ BatchesIdle
        /\ BreakerIdle
NextLoad == LoadStateCall
SpecLoad == InitLoad /\ [][NextLoad]_vars

\* The callers of one circuit breaker.
InitBreaker ==
    ClonerIdle /\ PathIdle /\ FetchIdle /\ ResolveIdle /\ RewriteIdle
        /\ RateIdle /\ LimitIdle /\ ExampleIdle /\ ChainIdle /\ BatchesIdle
        /\ LoadIdle /\ BreakerInit
NextBreaker ==
    \/ \E t \in Callers : Call(t)
    \/ \E t \in Callers : FuncReturns(t)
    \/ \E t \in Callers : FuncRaises(t)
    \/ BreakerTick
SpecBreaker == InitBreaker /\ [][NextBreaker]_vars


(***************************************************************************)
(* Properties.  Those of the pipeline are checked under Spec (C9 under     *)
(* FairSpec), C3 under SpecPath and C4 under SpecFetch.                    *)
(***************************************************************************)
Began(p) == \E i \in DOMAIN phases : phases[i] = p

PhaseOrder == <<"fetch-root", "discover-initial", "batch-download-assets",
                "closure-iterate", "retry-failed", "rewrite",
                "persist-metadata">>
PhaseRank(p) == CHOOSE i \in DOMAIN PhaseOrder : PhaseOrder[i] = p

\* C1: the phases of a run begin in the strict order fetch-root,
\* discover-initial, batch-download-assets, closure-iterate, retry-failed,
\* rewrite, persist-metadata (a phase begins only after every earlier one,
\* the batch phase being skipped only when the page has no asset); when
\* rewriting has started no fetch task is created or running and
\* download_urls is not active; and the URL mapping is still what it was
\* when rewriting started.
C1_PhaseOrderAndRewriteLast ==
    /\ \A i, j \in DOMAIN phases :
          i < j => PhaseRank(phases[i]) < PhaseRank(phases[j])
    /\ \A i \in DOMAIN phases : \A k \in 1..(PhaseRank(phases[i]) - 1) :
          Began(PhaseOrder[k])
             \/ (PhaseOrder[k] = "batch-download-assets" /\ site.page = {})
    /\ Began("rewrite") =>
          /\ InFlight = {}
          /\ du_status # "active"
          /\ url_mapping = mapping_at_rewrite

\* A complete run through all seven phases that downloaded a stylesheet
\* found in the closure loop and mapped it.
C1_Witness ==
    /\ pc = "returned"
    /\ result = "true"
    /\ Len(phases) = 7
    /\ CssB \notin site.page
    /\ url_mapping[CssB] # ""
    /\ url_mapping[Root] # ""

\* C2: when a run has gone through the retry-failed phase and returns while
\* a URL still has a failed result classified essential, clone_site's
\* result is false.
C2_EssentialFailureFlipsOutcome ==
    (pc = "returned" /\ Began("retry-failed")
        /\ EssentialFailed(download_results) # {})
    => result = "false"

\* Lexical normalisation of a path: '.' is dropped and '..' steps up; no
\* link is followed.
RECURSIVE NormalizeFrom(_, _)
NormalizeFrom(done, rest) ==
    IF rest = <<>> THEN done
    ELSE LET name == Head(rest)
         IN NormalizeFrom(IF name = <<".">> THEN done
                          ELSE IF name = <<".", ".">>
                               THEN SubSeq(done, 1, Len(done) - 1)
                               ELSE Append(done, name),
                          Tail(rest))
Normalized(path) == NormalizeFrom(<<>>, path)
StrictlyUnder(dir, path) == IsPathPrefix(dir, path) /\ Len(path) > Len(dir)
FallbackPath == Append(output_dir, create_safe_fallback_name(path_url))

\* C3: the path url_to_local_path returns is, normalised, a strict
\* descendant of the output directory, and so is the place it resolves to;
\* and when the assembled path resolves outside the output directory the
\* path returned is the hash-named fallback directly under it.
C3_PathStaysUnderRoot ==
    path_pc = "returned" =>
        /\ StrictlyUnder(Normalized(output_dir), Normalized(local_path))
        /\ StrictlyUnder(resolve(output_dir), resolve(local_path))
        /\ (path_url # base_url
              /\ ~IsPathPrefix(resolve(output_dir),
                               resolve(AssembledPath(path_url, output_dir))))
           => local_path = FallbackPath

\* A URL whose path holds a percent-encoded dot and whose assembled path
\* leaves the output directory: the fallback was returned.
C3_Witness ==
    /\ path_pc = "returned"
    /\ \E i \in DOMAIN path_url.path : path_url.path[i] = "%2e"
    /\ ~IsPathPrefix(resolve(output_dir),
                     resolve(AssembledPath(path_url, output_dir)))
    /\ local_path = FallbackPath

\* C4: a fetch that has returned a success left a file at the local path
\* that is not empty and whose size is within the tolerance of the length
\* the server declared for it, if it declared one.
C4_SuccessMeansStoredBytesConsistent ==
    fetch_result = "success" =>
        /\ file_on_disk > 0
        /\ file_size # NoLength =>
              Abs(file_on_disk - file_size) <= Tolerance

\* C5: no fetch runs for a URL that was in downloaded_urls or failed_urls
\* when its download_urls call was made, no URL is fetched twice, and a
\* call that has returned fetched exactly the net-new URLs of its argument.
C5_FetchesExactlyNetNew ==
    /\ Running \cap du_pre = {}
    /\ \A u \in AssetUrls : fetch_count[u] <= 1
    /\ du_status = "returned" => du_fetched = du_arg \ du_pre

\* C6: the number of fetches inside _download_single_url never exceeds
\* max_concurrent_downloads.
C6_InFlightBounded == Cardinality(Running) <= max_concurrent_downloads

\* Every permit is taken while another task of the call waits for one.
C6_Witness ==
    /\ Cardinality(Running) = max_concurrent_downloads
    /\ \E u \in AssetUrls : task[u] = "created"

\* C7: when download_urls has returned, every URL of its argument that was
\* not terminal has one result in the returned map and is in exactly one of
\* downloaded_urls and failed_urls; a task that raised has a failed result.
C7_EveryNewUrlHasOutcome ==
    du_status = "returned" =>
        \A u \in du_arg \ du_pre :
            /\ du_result[u].present
            /\ (u \in downloaded_urls) # (u \in failed_urls)
            /\ task[u] = TaskException => ~du_result[u].success

\* C8: in a pass of retry_failed_downloads every URL whose current result
\* is a failure is fetched again.
C8_RetryFetchesEveryFailure ==
    pc = "retry_record" => du_arg \subseteq du_fetched

InClosure ==
    \/ pc \in {"closure_head", "closure_mine", "closure_record"}
    \/ pc = "downloading" /\ du_ret = "closure_record"

C9_Bounded ==
    /\ iteration <= max_iterations
    /\ \A u \in AssetUrls : mined_count[u] <= 1
    /\ \A u \in AssetUrls : IsCssUrl(u) => fetch_count[u] <= 1

\* C9: the closure loop makes at most max_iterations iterations, mines no
\* stylesheet more than once and no stylesheet is fetched more than once;
\* and once entered it is always left.
C9_ClosureTerminates == []C9_Bounded /\ (InClosure ~> ~InClosure)

\* The cycle a.css -> b.css -> a.css: both stylesheets were mined and the
\* loop has ended.
C9_Witness ==
    /\ CssB \in site.a
    /\ CssA \in site.b
    /\ mined_count[CssA] = 1
    /\ mined_count[CssB] = 1
    /\ closure_exit # "none"

\* C10: when the closure loop has ended because an iteration found no new
\* stylesheet or no new reference, every reference of every successfully
\* downloaded stylesheet has a result in download_results.
C10_ClosureIsFixpoint ==
    closure_exit \in {"no_new_css", "no_new_assets"} =>
        \A u \in AssetUrls :
            (IsCssUrl(u) /\ download_results[u].present
                /\ download_results[u].success)
            => \A r \in CssRefs(u) : download_results[r].present

\* The root page was fetched with success: control went on to discovery.
RootFetched == pc = "discover" \/ Began("discover-initial")

\* C11: every key of url_mapping is the root URL after its fetch succeeded
\* or a URL whose result in download_results is a success; a URL that
\* failed or has no result is no key of the mapping.
C11_MappingOnlyOnSuccess ==
    /\ url_mapping[Root] # "" => RootFetched
    /\ \A u \in AssetUrls :
          url_mapping[u] # "" =>
              download_results[u].present /\ download_results[u].success

\* A finished run in which one asset failed and is unmapped while another
\* succeeded and is mapped.
C11_Witness ==
    /\ pc = "returned"
    /\ Began("rewrite")
    /\ \E u \in AssetUrls :
          /\ download_results[u].present
          /\ ~download_results[u].success
          /\ url_mapping[u] = ""
    /\ \E u \in AssetUrls : url_mapping[u] # ""

\* The fetch of the root page was made and did not succeed: a success
\* would have put the root page in the mapping (sitecloner.py:97-102).
RootFailed == Began("fetch-root") /\ url_mapping[Root] = ""

\* C12: when the fetch of the root page has failed, clone_site has returned
\* false, nothing was discovered, no asset was fetched or has a result, and
\* neither rewriting nor the writing of metadata has begun.
C12_RootFailureIsFatal ==
    RootFailed =>
        /\ pc = "returned"
        /\ result = "false"
        /\ discovered_urls = {}
        /\ \A u \in AssetUrls : fetch_count[u] = 0
        /\ Keys(download_results) = {}
        /\ phases = <<"fetch-root">>
        /\ mapping_at_rewrite = NoMapping

\* The root page of a site with assets failed.
C12_Witness == RootFailed /\ site.page # {} /\ result = "false"

\* C13: an exception raised in a phase after fetch-root does not abort the
\* run: the phases after it are still executed, so a run whose root page
\* was fetched has begun rewrite and persist-metadata when it returns, and
\* it returns true.
C13_ExceptionDoesNotAbort ==
    (pc = "returned" /\ RootFetched) =>
        /\ Began("closure-iterate")
        /\ Began("retry-failed")
        /\ Began("rewrite")
        /\ Began("persist-metadata")
        /\ result = "true"

\* C14: once shutdown has been requested during a run (its first phase has
\* begun) no later phase is started and no further download_urls call
\* dispatches its tasks, while the fetches in flight finish; and the run
\* does not return before a checkpoint is written.
C14_ShutdownObserved ==
    [][(shutdown_requested /\ Began("fetch-root")) =>
          /\ phases' = phases
          /\ (du_status' = "active" => du_status = "active")
          /\ (pc' = "returned" /\ pc # "returned" => state_saved')]_vars

\* What a run that is never interrupted fetches in the scenario: the assets
\* of the page and, n times over, what the stylesheets fetched with success
\* reference.
RECURSIVE FetchedWithin(_, _)
FetchedWithin(n, s) ==
    IF n = 0 THEN s
    ELSE FetchedWithin(n - 1,
             s \cup UNION {CssRefs(c) :
                             c \in {x \in s : IsCssUrl(x)
                                              /\ inputs.outcome[x] = "ok"}})

\* The URL mapping an uninterrupted run of the scenario ends with.
UninterruptedMapping ==
    [u \in AllUrls |->
        IF u = Root THEN LocalPathOf(Root)
        ELSE IF /\ inputs.disk = "ok"
                /\ u \in FetchedWithin(Cardinality(AssetUrls), site.page)
                /\ inputs.outcome[u] = "ok"
             THEN LocalPathOf(u) ELSE ""]

\* The run was resumed: load_state has restored a checkpoint written by an
\* earlier, interrupted run of the scenario.
Resumed ==
    /\ state_saved
    /\ \/ recovery_pc = "resume"
       \/ recovery_pc = "in_clone_site" /\ recovery_attempt > 0

C16_CheckpointRestoredAtStartup ==
    (StateFileUsable /\ pc = "fetch_root") =>
        /\ state_file.discovered_urls \subseteq discovered_urls
        /\ \A u \in AssetUrls :
              state_file.download_results[u].present =>
                  download_results[u] = state_file.download_results[u]
        /\ \A u \in AllUrls :
              state_file.url_mapping[u] # "" =>
                  url_mapping[u] = state_file.url_mapping[u]

\* C17: when clone_site_with_recovery has returned true there is no state
\* file, and when it has returned false there is one.
C17_CheckpointIffFailure ==
    recovery_pc = "done" =>
        /\ recovery_result = "true" => ~state_file.exists
        /\ recovery_result = "false" => state_file.exists

\* The reference has no scheme and is no protocol-relative one: it is
\* relative to the path or to the root of its base.
SchemeLess(url) ==
    /\ strip(url) # <<>>
    /\ urlparse(strip(url)).scheme = <<>>
    /\ ~StartsWith(strip(url), <<"/", "/">>)
    /\ ~StartsWith(strip(url), <<"#">>)

\* The classes of references that are to be rejected: blank ones,
\* fragments of the page itself, those
\* with a scheme other than http and https or with a scheme or '//' and no
\* authority, those of more than 2048 characters, those with a traversal sequence, and those whose authority,
\* their own or the one of the base, is local or private.
InRejectedClass(url, page) ==
    LET ref == strip(url)
        base == IF page # NoPage THEN page ELSE BaseUrlText
        parsed == urlparse(ref)
        authority == IF parsed.netloc # <<>> THEN parsed.netloc
                     ELSE urlparse(base).netloc
    IN  \/ ref = <<>>
        \/ StartsWith(ref, <<"#">>)
        \/ parsed.scheme \notin {<<>>, <<"http:">>, <<"https:">>}
        \/ parsed.scheme # <<>> /\ parsed.netloc = <<>>
        \/ StartsWith(ref, <<"/", "/">>) /\ parsed.netloc = <<>>
        \/ TextLen(urlparse(base).scheme \o ref) > MaxUrlChars
        \/ Contains(lower(ref), <<".", ".">>)
        \/ Contains(lower(ref), <<"%2e", "%2e">>)
        \/ lower(authority)[1] \in PrivateHostPieces

\* C18: a reference that is in no rejected class is accepted; one without
\* a scheme, found on an http(s) page, is not rejected, and what is returned
\* for it is an absolute URL of the host of that page.
C18_SchemeLessAccepted ==
    (resolve_pc = "returned" /\ ~InRejectedClass(ref_url, current_page_url)) =>
        /\ resolved_url # Rejected
        /\ SchemeLess(ref_url) =>
              /\ urlparse(resolved_url).scheme \in {<<"http:">>, <<"https:">>}
              /\ urlparse(resolved_url).netloc = <<"ex.test">>

\* C19: when resolve_url has accepted a reference, resolve_url applied to
\* what it returned, with any page as the base, returns that same URL.
C19_ResolveIdempotent ==
    resolve_pc = "again" => resolved_again = resolved_url

\* No reference of the file is in the URL mapping: each one is rejected by
\* resolve_url or resolved to a URL that has no entry.
Unmapped(ref) ==
    resolve_url(ref, NoPage) = Rejected
        \/ resolve_url(ref, NoPage) \notin mapped_urls
AllReferencesAbsent ==
    /\ Unmapped(StripQuotes(MatchGroup1(url_form)))
    /\ file_kind = "html" => Unmapped(src_attr)

\* C20: when no reference of a saved stylesheet or markup file is in the
\* URL mapping, rewrite_css_file / rewrite_html_file leaves the file as it
\* was, byte for byte, and reports no change, however its url(...) is
\* spaced, quoted and cased.
C20_AbsentReferencesNoOp ==
    (rewrite_pc = "returned" /\ AllReferencesAbsent) =>
        /\ file_content = FileText(file_kind, src_attr, MatchText(url_form))
        /\ ~changes_made

\* The attempt that ends in this step fails with a transient error: the
\* request or the body times out or raises, the body is empty or its size
\* differs from the declared one, or the status is 429 or 5xx.
TransientFailureStep ==
    \/ AttemptRaises
    \/ StreamEnd /\ fetch_result' # "success"
    \/ \E status \in {429, 500}, length \in DeclaredLengths,
          disk_ok \in BOOLEAN : allowed /\ Respond(status, length, disk_ok)

\* C23: one fetch makes at most max_retries + 1 requests to the same URL,
\* it always ends, and a transient error in the last allowed attempt ends
\* it with a failed result.
C23_TransientRetriedThenFailed ==
    /\ [](\A u \in FetchUrls : requests[u] <= max_retries + 1)
    /\ <>(fetch_pc = "done")
    /\ [][(attempt = max_retries /\ TransientFailureStep) =>
              (fetch_pc' = "done" /\ fetch_result' = "failed")]_vars

\* A fetch of three or more attempts, each answered 500, has failed.
C23_Witness ==
    /\ fetch_pc = "done"
    /\ fetch_result = "failed"
    /\ max_retries >= 2
    /\ response.status = 500
    /\ requests[fetch_url] = max_retries + 1

\* A response that is a permanent error: filtered by the configuration, a
\* 4xx status other than 404 (and other than 429, which is transient), or
\* a declared length the disk guard rejects.
PermanentError(resp) ==
    \/ ~allowed
    \/ resp.status >= 400 /\ resp.status < 500 /\ resp.status \notin {404, 429}
    \/ resp.status < 400 /\ resp.length # NoLength /\ ~resp.disk_ok

\* C24: a response that is a permanent error ends the fetch at once with a
\* failed result; no further request is made.
C24_PermanentNotRetried ==
    [][(fetch_pc = "request" /\ response' # NoResponse
            /\ PermanentError(response')) =>
          (fetch_pc' = "done" /\ fetch_result' = "failed")]_vars

\* C25: after a response with status 404 the fetch either ends or goes on
\* with an alternate URL; the URL that answered 404 is not requested again.
C25_NotFoundNotRetried ==
    [][(fetch_pc = "request" /\ allowed /\ response'.status = 404) =>
          (fetch_pc' = "done" \/ fetch_url' # fetch_url)]_vars

\* C26: with overwrite_existing false, a fetch called with a non-empty
\* file at the local path returns success without any request and leaves
\* the file as it was; called with an empty file there, it requests the
\* URL.
C26_ExistingFileSkipsRequest ==
    (fetch_pc = "done" /\ ~overwrite_existing) =>
        /\ file_at_call > 0 =>
              /\ fetch_result = "success"
              /\ \A u \in FetchUrls : requests[u] = 0
              /\ file_on_disk = file_at_call
        /\ file_at_call = 0 => requests[called_url] >= 1

\* A fetch called with a non-empty file at the local path has returned.
C26_Witness ==
    /\ fetch_pc = "done"
    /\ ~overwrite_existing
    /\ file_at_call > 0
    /\ fetch_result = "success"

\* C27: the delays one fetch sleeps between its attempts start at
\* retry_delay and grow by a constant factor greater than 1.
C27_ExponentialBackoff ==
    /\ delays # <<>> => delays[1] = retry_delay
    /\ \A i \in 1..(Len(delays) - 1) : delays[i + 1] > delays[i]
    /\ \A i \in 2..(Len(delays) - 1) :
          delays[i + 1] * delays[i - 1] = delays[i] * delays[i]

\* The calls admitted in the second that begins at tick s.
RECURSIVE AdmittedIn(_, _)
AdmittedIn(s, n) ==
    IF n = 0 \/ s > MaxTime THEN 0
    ELSE admitted[s] + AdmittedIn(s + 1, n - 1)

\* C22: in any window of one second the limiter admits at most
\* max_rps + burst_size calls, whatever the number of calling tasks.
C22_RateBounded ==
    \A s \in 0..MaxTime : AdmittedIn(s, TicksPerSecond) <= max_rps + burst_size

\* retry_failed_downloads has been called and is over: it returned, or a
\* pass raised and clone_site returned.
RetryOver ==
    /\ Began("retry-failed")
    /\ pc \in {"retry_done", "rewrite", "metadata", "summary", "returned"}

C29_MinedWithinLimit == mined_css <= max_total_css_files

\* C30: the step that mines a stylesheet records its import edges in the
\* import graph, and when the cycle check from that stylesheet finds a cycle
\* none of its references is submitted.
C30_ImportEdgesChecked ==
    [][\A u \in AssetUrls :
          mined_count'[u] = mined_count[u] + 1 =>
              /\ css_import_graph'[u] = CssImports(u)
              /\ HasCssImportCycle(u, css_import_graph') =>
                    new_assets' = new_assets]_vars

\* The references are written as the site of the claim writes them:
\* style.css, fonts.css, bg.png and font.woff2 relative, /img/logo.png
\* rooted.
AsWritten ==
    ref_forms = [n \in RefNames |->
                    IF n = "logo" THEN "rooted" ELSE "relative"]

\* C21: the run on the small site, every fetch succeeding, discovers
\* exactly 5 canonical URLs, has all of them as keys of the URL mapping,
\* and rewrites the img src to ex.test/img/logo.png.
C21_ExampleRun ==
    (example_pc = "done" /\ AsWritten) =>
        /\ Cardinality(found_urls) = 5
        /\ found_urls \subseteq mapping_keys
        /\ img_src = <<"ex.test", "/">> \o RefPath("logo")

\* C31: import depth is tracked and edges beyond max_css_depth are dropped:
\* the closure loop hands no stylesheet to download_urls that is reachable
\* only through an import chain longer than max_css_depth.
C31_DeepImportsDropped == \A d \in chain_handed : d <= max_css_depth

C33_CheckpointEveryInterval ==
    completed - completed_at_save <= recovery_checkpoint_interval

\* C34: load_state on a checkpoint whose target_url differs from the
\* requested root URL, or with no checkpoint file, returns false and leaves
\* discovered_urls, download_results, the URL mapping and the download
\* manager's downloaded_urls and failed_urls unchanged.
C34_ForeignCheckpointIgnored ==
    (/\ load_pc = "returned"
     /\ (~state_file.exists \/ state_file.target_url # Root))
    => /\ load_returned = FALSE
       /\ Fields = fields_at_call

\* load_state has returned for the checkpoint of another target, on a
\* cloner whose fields differ from that checkpoint.
C34_Witness ==
    /\ load_pc = "returned"
    /\ state_file = StateFileFor(OtherTarget)
    /\ download_results # state_file.download_results
    /\ download_results[CssB].present

\* C35: the URL mapping is append-only: once a URL is a key of url_mapping
\* it stays a key for the rest of the run and its local path never changes,
\* through the batch downloads, the closure iterations and the retries.
C35_MappingAppendOnly ==
    [][\A u \in AllUrls :
          url_mapping[u] # "" => url_mapping'[u] = url_mapping[u]]_vars

\* A run that reached the retries with one stylesheet mapped by a batch and
\* an asset of that stylesheet mapped by a later call.
C35_Witness ==
    /\ Began("retry-failed")
    /\ url_mapping[Root] # ""
    /\ url_mapping[CssA] # ""
    /\ url_mapping[Img] # ""
    /\ Img \notin site.page

\* C36: in every reachable state of the download manager, under any
\* sequence of download_urls, retry_failed_downloads and load_state,
\* downloaded_urls and failed_urls are disjoint.
C36_SucceededAndFailedDisjoint == downloaded_urls \cap failed_urls = {}

\* C37: when the rewrite phase starts no discovered URL is left without an
\* outcome: every URL of discovered_urls is a key of download_results.
C37_EveryDiscoveredHasResult ==
    Began("rewrite") =>
        \A u \in discovered_urls : download_results[u].present

\* A URL as resolve_url hands it on: it has a host and its path is what
\* normalize_url makes of it.
CanonicalUrl(u) == u.netloc # <<>> /\ normalized_path(u.path) = u.path

\* C38: two distinct canonical URLs never share a local file:
\* url_to_local_path gives different paths for different URLs, so the
\* existing-file skip of a fetch never takes the file of another URL.
\* The fallback name holds the md5 of the whole URL (url_resolver.py:382),
\* taken to differ between different URLs.
C38_DistinctUrlsDistinctPaths ==
    (path_pc = "returned" /\ CanonicalUrl(path_url)
        /\ local_path # FallbackPath) =>
        \A other \in PathUrls :
            (CanonicalUrl(other) /\ other # path_url) =>
                url_to_local_path(other, output_dir) # local_path

\* clone_site_with_recovery is running.
InRecovery == recovery_pc \in {"loop_head", "in_clone_site"}

\* C39: clone_site_with_recovery always terminates, after at most
\* max_recovery_attempts executions of clone_site; it returns true exactly
\* when one of those executions returned true, and it makes no further
\* attempt after a successful one.
C39_RecoveryTerminates ==
    /\ [](executions <= max_recovery_attempts)
    /\ [](recovery_pc = "done" => (recovery_result = "true" <=> successes >= 1))
    /\ [][successes >= 1 => executions' <= executions]_vars
    /\ (InRecovery ~> recovery_pc = "done")

\* clone_site_with_recovery returned True from its third execution of
\* clone_site, after two that returned False.
C39_Witness ==
    /\ recovery_pc = "done"
    /\ recovery_result = "true"
    /\ executions = max_recovery_attempts
    /\ successes = 1

\* The breaker is open and less than recovery_timeout has passed since the
\* last recorded failure.
OpenAndWaiting ==
    /\ breaker_state = "open"
    /\ last_failure_time # Absent
    /\ breaker_now - last_failure_time < recovery_timeout

\* C40: under any interleaving of concurrent call() invocations, while the
\* breaker is OPEN and less than recovery_timeout has elapsed since the last
\* recorded failure, call() raises without invoking the wrapped function;
\* and the breaker leaves OPEN only through HALF_OPEN.
C40_OpenBreakerRejects ==
    /\ [][OpenAndWaiting =>
            \A t \in Callers :
                (call_pc[t] # "in_func" /\ call_pc'[t] # call_pc[t])
                    => call_pc'[t] = "rejected"]_vars
    /\ [][(breaker_state = "open" /\ breaker_state' # "open")
            => breaker_state' = "half_open"]_vars

\* The breaker has been open and turned a call away, and is closed again
\* while a call let in earlier is still inside func.
C40_Witness ==
    /\ breaker_state = "closed"
    /\ last_failure_time # Absent
    /\ \E t \in Callers : call_pc[t] = "rejected"
    /\ \E t \in Callers : call_pc[t] = "in_func"


====
